---- MODULE Spec2Model ----
(***************************************************************************)
(* Verification model of glide's post-processing core.                     *)
(*                                                                         *)
(* Time is measured in whole ticks and positions in whole screen points.   *)
(* The f64 arithmetic of the source is modelled by exact rational          *)
(* arithmetic: a value is a pair <<n, d>> in lowest terms with d > 0.       *)
(***************************************************************************)
EXTENDS Integers, Sequences, FiniteSets, TLC

VARIABLES
    cursor_events,    \* metadata.cursor_events: the event log, in recording order
    config,           \* the ZoomConfig handed to calculate_zoom
    phase,            \* "record" while the log grows, "process" while frames are made
    timestamp,        \* adjusted_timestamp of the output frame being processed
    effective,        \* get_effective_clicks(cursor_events, config)
    trajectory,       \* calculate_zoom(timestamp, cursor_events, config)
    ripples,          \* get_active_ripples(timestamp, cursor_events, highlight)
    cursor,           \* get_smoothed_cursor(timestamp, cursor_events, cursor_config)
    metadata,         \* metadata.width and metadata.height of the recording
    layout,           \* ContentLayout::calculate(metadata.width, metadata.height)
    zoomed,           \* apply_zoom: the image, the arguments and the crop window
    motion,           \* MotionState: the velocities and the phase found for them
    driver,           \* which process_video runs: processing/pipeline.rs or processor.rs
    pc,               \* the step process_video is at
    args,             \* process_video's arguments background, trim_start, trim_end
    original_duration,\* get_video_duration(input), in seconds
    bg,               \* Background::parse(background)
    trimmed_duration, \* the duration left by the trim, in seconds
    counts,           \* source_frame_count, output_frame_count and source_fps
    frames_dir,       \* the files of the temporary directory, by name
    source_frames,    \* the source frames pre-loaded by the pipeline
    task,             \* the state of the per-frame task of each output frame
    processed,        \* the AtomicUsize counter of the tasks
    pb,               \* the position of the progress bar
    encoded,          \* the frames the encoder has read, in order
    outcome,          \* what process_video returned
    cancel,           \* whether the user has asked the run to stop
    flags,            \* process_video's arguments no_cursor, no_motion_blur, no_click_highlight
    time_offset,      \* the offset from video time to event time, in seconds
    final_img,        \* what the task of a frame drew, in order, and the times it used
    platform,         \* "linux" or "macos": the capture and the cursor tracker that are built
    tracker,          \* CursorTracker: stop_tx, thread_handle and the time since start_time
    stop_rx,          \* the channel of the stop signal: its messages, and whether a Sender lives
    thread,           \* the tracking thread: where it is, and what it remembers
    caller,           \* where the caller of CursorTracker is, and what stop returned
    session,          \* CaptureSession: the running flag, the reader and the frames captured
    channel,          \* the sync_channel of captured frames
    received,         \* the frames try_recv gave the recorder, in order, and the loop that got them
    encoder,          \* VideoEncoder: its state and the frames written to its stdin
    running,          \* the flag the Ctrl+C handler clears
    rec_pc,           \* the step record_display is at
    saved,            \* whether the metadata file was written
    recorded          \* what record_display returned

frameVars == <<cursor_events, config, phase, timestamp, effective, trajectory, ripples, cursor>>

effectVars == <<metadata, layout, zoomed, motion>>

driverVars == <<driver, pc, args, original_duration, bg, trimmed_duration, counts, frames_dir, source_frames, task, processed, pb,
                encoded, outcome, cancel>>

renderVars == <<flags, time_offset, final_img>>

trackerVars == <<platform, tracker, stop_rx, thread, caller>>

recorderVars == <<session, channel, received, encoder, running, rec_pc, saved, recorded>>

recordVars == <<trackerVars, recorderVars>>

vars == <<frameVars, effectVars, driverVars, renderVars, recordVars>>

----------------------------------------------------------------------------
(* Bounds of the model *)

MaxEvents == 3        \* longest event log
MaxTime == 8          \* latest event timestamp, in ticks
MaxFrames == 3        \* most output frames of a run of the driver

----------------------------------------------------------------------------
(* Exact rational arithmetic standing for f64 *)

Abs(i) == IF i < 0 THEN -i ELSE i

RECURSIVE Gcd(_, _)
Gcd(a, b) == IF b = 0 THEN a ELSE Gcd(b, a % b)

Rat(n, d) ==
    LET s == IF d < 0 THEN -1 ELSE 1
        g == Gcd(Abs(n), Abs(d))
    IN  <<(s * n) \div g, (s * d) \div g>>

F(i) == <<i, 1>>

Add(a, b) == Rat(a[1] * b[2] + b[1] * a[2], a[2] * b[2])
Sub(a, b) == Rat(a[1] * b[2] - b[1] * a[2], a[2] * b[2])
Mul(a, b) == Rat(a[1] * b[1], a[2] * b[2])
Div(a, b) == Rat(a[1] * b[2], a[2] * b[1])
Lt(a, b)  == a[1] * b[2] < b[1] * a[2]
Le(a, b)  == a[1] * b[2] <= b[1] * a[2]
Max(a, b) == IF Lt(a, b) THEN b ELSE a
Min(a, b) == IF Lt(b, a) THEN b ELSE a
Clamp(v, lo, hi) == Min(Max(v, lo), hi)
Powi3(a)  == Mul(a, Mul(a, a))

----------------------------------------------------------------------------
(* Easing and interpolation: processing/zoom.rs *)

lerp(a, b, t) == Add(a, Mul(Sub(b, a), t))

ease_out_cubic(t) == Sub(F(1), Powi3(Sub(F(1), t)))

ease_in_cubic(t) == Mul(t, Mul(t, t))

\* ease_in_out_cubic whose second half lacks the division by 2
ease_in_out_cubic_NoHalf(t) ==
    IF Lt(t, <<1, 2>>)
    THEN Mul(F(4), Mul(t, Mul(t, t)))
    ELSE Sub(F(1), Powi3(Add(Mul(F(-2), t), F(2))))

ease_in_out_cubic(t) ==
    IF Lt(t, <<1, 2>>)
    THEN Mul(F(4), Mul(t, Mul(t, t)))
    ELSE Sub(F(1), Div(Powi3(Add(Mul(F(-2), t), F(2))), F(2)))

----------------------------------------------------------------------------
(* Events and configurations *)

EventType == {"Move", "LeftClick", "RightClick"}

IsClick(e) == e.event_type \in {"LeftClick", "RightClick"}

CursorEvent(x, y, t, k) == [x |-> x, y |-> y, timestamp |-> t, event_type |-> k]

Last(s) == s[Len(s)]

----------------------------------------------------------------------------
(* processing/zoom.rs *)

\* ZoomConfig, durations in ticks.  ZoomConfig::default() is (1.5, 0.6 s, 4.0 s,
\* 0.8 s, 0.5 s): max_zoom 3/2 and debounce < ease_in, as in the first
\* configuration; in the second the debounce covers the whole ease-in.
Configs ==
    { [max_zoom |-> <<3, 2>>, ease_in |-> 3, hold |-> 1, ease_out |-> 2, debounce |-> 1],
      [max_zoom |-> <<2, 1>>, ease_in |-> 2, hold |-> 2, ease_out |-> 2, debounce |-> 2] }

\* Debounce with `>=` in place of `>`: a click exactly `debounce` after the
\* kept one is kept too.
RECURSIVE Debounce_AtLeast(_, _, _)
Debounce_AtLeast(clicks, effective_so_far, cfg) ==
    IF clicks = <<>> THEN effective_so_far
    ELSE LET click == Head(clicks)
             keep  == IF effective_so_far = <<>> THEN TRUE
                      ELSE click.timestamp - Last(effective_so_far).timestamp >= cfg.debounce
         IN  Debounce_AtLeast(Tail(clicks),
                      IF keep THEN Append(effective_so_far, click) ELSE effective_so_far,
                      cfg)

\* Debounce that keeps the last click of a burst instead of the first: a click
\* within `debounce` of the kept one replaces it.
RECURSIVE Debounce_KeepLast(_, _, _)
Debounce_KeepLast(clicks, effective_so_far, cfg) ==
    IF clicks = <<>> THEN effective_so_far
    ELSE LET click == Head(clicks)
             keep  == IF effective_so_far = <<>> THEN TRUE
                      ELSE click.timestamp - Last(effective_so_far).timestamp > cfg.debounce
         IN  Debounce_KeepLast(Tail(clicks),
                      IF keep THEN Append(effective_so_far, click)
                      ELSE Append(SubSeq(effective_so_far, 1, Len(effective_so_far) - 1), click),
                      cfg)

\* Configurations whose phases last long enough to hold three consecutive
\* frames: long ease-in, hold and ease-out in the first, a long pan between
\* the hold and the ease-in of the next click in the second.
SlowConfigs ==
    { [max_zoom |-> <<3, 2>>, ease_in |-> 4, hold |-> 4, ease_out |-> 4, debounce |-> 1],
      [max_zoom |-> <<2, 1>>, ease_in |-> 1, hold |-> 1, ease_out |-> 4, debounce |-> 1] }

\* get_effective_clicks: the loop over the clicks, `effective` being the
\* vector built so far.
RECURSIVE Debounce(_, _, _)
Debounce(clicks, effective_so_far, cfg) ==
    IF clicks = <<>> THEN effective_so_far
    ELSE LET click == Head(clicks)
             keep  == IF effective_so_far = <<>> THEN TRUE
                      ELSE click.timestamp - Last(effective_so_far).timestamp > cfg.debounce
         IN  Debounce(Tail(clicks),
                      IF keep THEN Append(effective_so_far, click) ELSE effective_so_far,
                      cfg)

\* get_effective_clicks whose loop starts at the second click
get_effective_clicks_SkipFirst(events, cfg) ==
    LET clicks == SelectSeq(events, IsClick)
    IN  Debounce(IF clicks = <<>> THEN <<>> ELSE Tail(clicks), <<>>, cfg)

get_effective_clicks(events, cfg) ==
    Debounce(SelectSeq(events, IsClick), <<>>, cfg)

\* Option values: <<>> is None, <<v>> is Some(v).
LastOf(s)  == IF s = <<>> THEN <<>> ELSE <<Last(s)>>
FirstOf(s) == IF s = <<>> THEN <<>> ELSE <<Head(s)>>

\* zoom.rs (the first planner): find_effective_clicks debounces the clicks at
\* or before t and returns (previous, current), the last two kept.
find_effective_clicks(clicks, cfg) ==
    LET effective_clicks == Debounce(clicks, <<>>, cfg)
        len == Len(effective_clicks)
    IN  IF len = 0 THEN <<(<<>>), (<<>>)>>
        ELSE IF len = 1 THEN <<(<<>>), <<effective_clicks[1]>>>>
        ELSE <<(<<effective_clicks[len - 1]>>), <<effective_clicks[len]>>>>

Sample(zoom, x, y) == [zoom |-> zoom, x |-> x, y |-> y]

pan_window(cfg) == cfg.hold + cfg.ease_out + cfg.ease_in

\* prev_click: the most recent effective click at or before t
prev_click(t, effective_clicks) ==
    LastOf(SelectSeq(effective_clicks, LAMBDA c : c.timestamp <= t))

\* next_click: the first effective click after t
next_click(t, effective_clicks) ==
    FirstOf(SelectSeq(effective_clicks, LAMBDA c : c.timestamp > t))

\* default_pos with `<` in place of `<=`
default_pos_Strict(t, events) ==
    LET before == SelectSeq(events, LAMBDA e : e.timestamp < t)
    IN  IF before = <<>> THEN <<F(0), F(0)>>
        ELSE <<F(Last(before).x), F(Last(before).y)>>

\* default_pos: the position of the last event at or before t, or (0, 0)
default_pos(t, events) ==
    LET before == SelectSeq(events, LAMBDA e : e.timestamp <= t)
    IN  IF before = <<>> THEN <<F(0), F(0)>>
        ELSE <<F(Last(before).x), F(Last(before).y)>>

\* pan_zoom without the .max(max_zoom)
pan_zoom_NoMax(zoom, cfg) == zoom

\* Case 1, the zoom returned while panning to the next click: zoom.max(max_zoom)
pan_zoom(zoom, cfg) == Max(zoom, cfg.max_zoom)

\* Case 1: anticipatory zoom-in towards next, prev being Some(click) or None
anticipatory_zoom(t, prev, next, cfg) ==
    LET time_to_next == next.timestamp - t
        progress == Sub(F(1), Rat(time_to_next, cfg.ease_in))
        zoom == Add(F(1), Mul(Sub(cfg.max_zoom, F(1)), ease_out_cubic(progress)))
    IN  IF prev # <<>> /\ next.timestamp - prev[1].timestamp <= pan_window(cfg)
        THEN Sample(pan_zoom(zoom, cfg),
                    lerp(F(prev[1].x), F(next.x), ease_in_out_cubic(progress)),
                    lerp(F(prev[1].y), F(next.y), ease_in_out_cubic(progress)))
        ELSE Sample(zoom, F(next.x), F(next.y))

\* Case 2, pan mode: hold at prev, then move the focus from prev to next
pan_mode(t, prev, next, cfg) ==
    LET elapsed == t - prev.timestamp
        time_to_next == next.timestamp - t
        hold_end == prev.timestamp + cfg.hold
        lead     == next.timestamp - cfg.ease_in
        pan_start_time == IF hold_end <= lead THEN hold_end ELSE lead
        pan_duration == next.timestamp - pan_start_time
        pan_elapsed  == t - pan_start_time
        pan_progress == Clamp(Rat(pan_elapsed, pan_duration), F(0), F(1))
    IN  IF elapsed <= cfg.hold /\ time_to_next > cfg.ease_in
        THEN Sample(cfg.max_zoom, F(prev.x), F(prev.y))
        ELSE IF t >= pan_start_time
        THEN Sample(cfg.max_zoom,
                    lerp(F(prev.x), F(next.x), ease_in_out_cubic(pan_progress)),
                    lerp(F(prev.y), F(next.y), ease_in_out_cubic(pan_progress)))
        ELSE Sample(cfg.max_zoom, F(prev.x), F(prev.y))

\* in_zoom_out with `<` in place of `<=`
in_zoom_out_Strict(elapsed, cfg) == elapsed < cfg.hold + cfg.ease_out

\* Case 2, the guard of the zoom-out phase
in_zoom_out(elapsed, cfg) == elapsed <= cfg.hold + cfg.ease_out

\* zoom_out_level whose progress forgets to subtract the hold
zoom_out_level_NoHold(elapsed, cfg) ==
    LET progress == Rat(elapsed, cfg.ease_out)
    IN  Sub(cfg.max_zoom, Mul(Sub(cfg.max_zoom, F(1)), ease_in_cubic(progress)))

\* Case 2, the zoom level of the zoom-out phase
zoom_out_level(elapsed, cfg) ==
    LET progress == Rat(elapsed - cfg.hold, cfg.ease_out)
    IN  Sub(cfg.max_zoom, Mul(Sub(cfg.max_zoom, F(1)), ease_in_cubic(progress)))

calculate_zoom(t, events, cfg) ==
    LET effective_clicks == get_effective_clicks(events, cfg)
        prev == prev_click(t, effective_clicks)
        next == next_click(t, effective_clicks)
        idle == Sample(F(1), default_pos(t, events)[1], default_pos(t, events)[2])
    IN  IF /\ next # <<>>
           /\ next[1].timestamp - t > 0
           /\ next[1].timestamp - t <= cfg.ease_in
        THEN anticipatory_zoom(t, prev, next[1], cfg)
        ELSE IF prev # <<>>
        THEN LET elapsed == t - prev[1].timestamp
             IN  IF /\ next # <<>>
                    /\ next[1].timestamp - prev[1].timestamp <= pan_window(cfg)
                 THEN pan_mode(t, prev[1], next[1], cfg)
                 ELSE IF elapsed <= cfg.hold
                 THEN Sample(cfg.max_zoom, F(prev[1].x), F(prev[1].y))
                 ELSE IF in_zoom_out(elapsed, cfg)
                 THEN Sample(zoom_out_level(elapsed, cfg), F(prev[1].x), F(prev[1].y))
                 ELSE idle
        ELSE idle

----------------------------------------------------------------------------
(* processing/cursor.rs *)

\* CursorConfig, durations in ticks.  CursorConfig::default() is
\* (0.15 s, 2.0 s, 0.3 s): the fade is shorter than the timeout.
CursorConfig == [smooth_window |-> 2, inactivity_timeout |-> 4, fade_duration |-> 3]

CursorState(x, y, opacity) == [x |-> x, y |-> y, opacity |-> opacity]

\* f64::exp of a value x <= 0.  The value is rounded, as exp rounds to the
\* f64 grid, here to 1/1024 of the reciprocal of the Taylor polynomial of
\* e^(-x) of degree 4: positive, at most 1, decreasing in -x.
exp(x) ==
    LET a == -x[1]
        b == x[2]
    IN  Rat((1024 * 24 * b * b * b * b)
              \div (24 * b * b * b * b + 24 * a * b * b * b + 12 * a * a * b * b
                      + 4 * a * a * a * b + a * a * a * a),
            1024)

\* The weight of one event of the window
gaussian_weight(event, t, sigma) ==
    LET time_diff == event.timestamp - t
        adjusted_diff == IF time_diff > 0 THEN time_diff * 2 ELSE time_diff
    IN  exp(Rat(-(adjusted_diff * adjusted_diff), 2 * sigma * sigma))

\* The loop over events_in_window: <<weighted_x, weighted_y, total_weight>>
RECURSIVE accumulate(_, _, _, _)
accumulate(window, t, sigma, acc) ==
    IF window = <<>> THEN acc
    ELSE LET event == Head(window)
             weight == gaussian_weight(event, t, sigma)
         IN  accumulate(Tail(window), t, sigma,
                        <<Add(acc[1], Mul(F(event.x), weight)),
                          Add(acc[2], Mul(F(event.y), weight)),
                          Add(acc[3], weight)>>)

\* average_of dividing by the number of events, not by their weight
average_of_ByCount(acc, window) ==
    <<Div(acc[1], F(Len(window))), Div(acc[2], F(Len(window)))>>

\* The end of get_smoothed_position: the sums divided by the total weight
average_of(acc, window) ==
    IF Lt(F(0), acc[3])
    THEN <<Div(acc[1], acc[3]), Div(acc[2], acc[3])>>
    ELSE <<F(window[1].x), F(window[1].y)>>

\* The Gaussian-weighted moving average of two or more events
weighted_average(window, t, sigma) ==
    average_of(accumulate(window, t, sigma, <<F(0), F(0), F(0)>>), window)

\* The window is [t - 2 smooth_window, t + smooth_window / 2]; the bounds
\* are compared doubled, in whole ticks.
get_smoothed_position(t, events, smooth_window) ==
    LET events_in_window ==
            SelectSeq(events, LAMBDA e : /\ 2 * e.timestamp >= 2 * t - 4 * smooth_window
                                         /\ 2 * e.timestamp <= 2 * t + smooth_window)
    IN  IF events_in_window = <<>> THEN default_pos(t, events)
        ELSE IF Len(events_in_window) = 1
        THEN <<F(events_in_window[1].x), F(events_in_window[1].y)>>
        ELSE weighted_average(events_in_window, t, smooth_window)

\* calculate_activity_opacity measuring the idle time from the first event
calculate_activity_opacity_FirstEvent(t, events, cfg) ==
    LET before == SelectSeq(events, LAMBDA e : e.timestamp <= t)
    IN  IF before = <<>> THEN F(0)
        ELSE LET idle_time == t - before[1].timestamp
             IN  IF idle_time < cfg.inactivity_timeout THEN F(1)
                 ELSE IF idle_time < cfg.inactivity_timeout + cfg.fade_duration
                 THEN Sub(F(1), ease_out_cubic(Rat(idle_time - cfg.inactivity_timeout,
                                                   cfg.fade_duration)))
                 ELSE F(0)

\* calculate_activity_opacity whose fade lacks the `1.0 -`
calculate_activity_opacity_Rising(t, events, cfg) ==
    LET before == SelectSeq(events, LAMBDA e : e.timestamp <= t)
    IN  IF before = <<>> THEN F(0)
        ELSE LET idle_time == t - Last(before).timestamp
             IN  IF idle_time < cfg.inactivity_timeout THEN F(1)
                 ELSE IF idle_time < cfg.inactivity_timeout + cfg.fade_duration
                 THEN ease_out_cubic(Rat(idle_time - cfg.inactivity_timeout,
                                         cfg.fade_duration))
                 ELSE F(0)

calculate_activity_opacity(t, events, cfg) ==
    LET before == SelectSeq(events, LAMBDA e : e.timestamp <= t)
    IN  IF before = <<>> THEN F(0)
        ELSE LET idle_time == t - Last(before).timestamp
             IN  IF idle_time < cfg.inactivity_timeout THEN F(1)
                 ELSE IF idle_time < cfg.inactivity_timeout + cfg.fade_duration
                 THEN Sub(F(1), ease_out_cubic(Rat(idle_time - cfg.inactivity_timeout,
                                                   cfg.fade_duration)))
                 ELSE F(0)

get_smoothed_cursor(t, events, cfg) ==
    LET pos == get_smoothed_position(t, events, cfg.smooth_window)
    IN  CursorState(pos[1], pos[2], calculate_activity_opacity(t, events, cfg))

----------------------------------------------------------------------------
(* processing/effects.rs *)

OUTPUT_WIDTH == 1920
OUTPUT_HEIGHT == 1080

\* `as u32` of a f64: truncation towards zero, negative values give 0
as_u32(q) == IF q[1] < 0 THEN 0 ELSE q[1] \div q[2]

RECURSIVE IsPowerOfTwo(_)
IsPowerOfTwo(d) == d = 1 \/ (d % 2 = 0 /\ IsPowerOfTwo(d \div 2))

\* The values `(size as f64 * scale) as u32` can take.  When scale is not a
\* binary fraction, the quotient that gave it was rounded, and a product
\* that is a whole number in exact arithmetic may be rounded to just below it.
scaled_sizes(size, scale) ==
    LET exact == Mul(F(size), scale)
    IN  IF exact[2] = 1 /\ ~IsPowerOfTwo(scale[2]) /\ exact[1] > 0
        THEN {exact[1], exact[1] - 1}
        ELSE {as_u32(exact)}

\* scale_to_fit without the .min(1.0)
scale_to_fit_Upscale(content_width, content_height) ==
    Min(Rat(OUTPUT_WIDTH - 200, content_width), Rat(OUTPUT_HEIGHT - 200, content_height))

\* The scale of ContentLayout::calculate
scale_to_fit(content_width, content_height) ==
    LET scale_x == Rat(OUTPUT_WIDTH - 200, content_width)
        scale_y == Rat(OUTPUT_HEIGHT - 200, content_height)
    IN  Min(Min(scale_x, scale_y), F(1))

ContentLayout(scale, scaled_width, scaled_height) ==
    [scale |-> scale,
     offset_x |-> (OUTPUT_WIDTH - scaled_width) \div 2,
     offset_y |-> (OUTPUT_HEIGHT - scaled_height) \div 2,
     scaled_width |-> scaled_width,
     scaled_height |-> scaled_height]

\* ContentLayout::calculate: the layouts the call can return
calculate(content_width, content_height) ==
    LET scale == scale_to_fit(content_width, content_height)
    IN  {ContentLayout(scale, sw, sh) :
            sw \in scaled_sizes(content_width, scale),
            sh \in scaled_sizes(content_height, scale)}

\* DynamicImage::crop_imm: the rectangle is cut to the image
crop_imm(width, height, x, y, w, h) ==
    LET cx == IF x < width THEN x ELSE width
        cy == IF y < height THEN y ELSE height
    IN  [x |-> cx, y |-> cy,
         width |-> IF w < width - cx THEN w ELSE width - cx,
         height |-> IF h < height - cy THEN h ELSE height - cy]

\* apply_zoom: the window of the image that is cropped and resized back
apply_zoom(width, height, zoom, cursor_x, cursor_y) ==
    LET width_f == F(width)
        height_f == F(height)
        view_width == Div(width_f, zoom)
        view_height == Div(height_f, zoom)
        zoom_factor == Sub(F(1), Div(F(1), zoom))
        max_left == Max(Sub(width_f, view_width), F(0))
        max_top == Max(Sub(height_f, view_height), F(0))
        view_left == Clamp(Mul(cursor_x, zoom_factor), F(0), max_left)
        view_top == Clamp(Mul(cursor_y, zoom_factor), F(0), max_top)
    IN  [view_left |-> view_left, view_top |-> view_top,
         view_width |-> view_width, view_height |-> view_height,
         cropped |-> crop_imm(width, height, as_u32(view_left), as_u32(view_top),
                              as_u32(view_width), as_u32(view_height))]

----------------------------------------------------------------------------
(* processing/motion_blur.rs *)

ZOOM_THRESHOLD == <<1, 20>>
PAN_THRESHOLD == 50

MotionPhase == {"Idle", "ZoomIn", "Hold", "ZoomOut", "Pan"}

\* pan_speed > PAN_THRESHOLD with `>=`
pan_speed_exceeds_AtLeast(pan_vx, pan_vy) ==
    Le(F(PAN_THRESHOLD * PAN_THRESHOLD), Add(Mul(pan_vx, pan_vx), Mul(pan_vy, pan_vy)))

\* pan_speed > PAN_THRESHOLD, pan_speed the square root of the sum of the
\* squares: the root is monotone and exact on a square, so the test is the
\* test of the sum against the square of the threshold.
pan_speed_exceeds(pan_vx, pan_vy) ==
    Lt(F(PAN_THRESHOLD * PAN_THRESHOLD), Add(Mul(pan_vx, pan_vx), Mul(pan_vy, pan_vy)))

determine_motion_phase(zoom, zoom_velocity, pan_vx, pan_vy) ==
    IF Lt(zoom, <<101, 100>>) THEN "Idle"
    ELSE IF Lt(ZOOM_THRESHOLD, zoom_velocity) THEN "ZoomIn"
    ELSE IF Lt(zoom_velocity, Sub(F(0), ZOOM_THRESHOLD)) THEN "ZoomOut"
    ELSE IF pan_speed_exceeds(pan_vx, pan_vy) THEN "Pan"
    ELSE "Hold"

MotionState(zoom, zoom_velocity, pan_vx, pan_vy) ==
    [zoom |-> zoom, zoom_velocity |-> zoom_velocity,
     pan_velocity_x |-> pan_vx, pan_velocity_y |-> pan_vy,
     phase |-> determine_motion_phase(zoom, zoom_velocity, pan_vx, pan_vy)]

----------------------------------------------------------------------------
(* processing/click_highlight.rs *)

\* ClickHighlightConfig::default(), the duration in ticks
ClickHighlightConfig == [enabled |-> TRUE, duration |-> 2]

ActiveRipple(x, y, progress) == [x |-> x, y |-> y, progress |-> progress]

\* get_active_ripples with `<=` in place of `<` at the end of the animation
RECURSIVE get_active_ripples_Inclusive(_, _, _)
get_active_ripples_Inclusive(t, events, duration) ==
    IF events = <<>> THEN <<>>
    ELSE LET e == Head(events)
             rest == get_active_ripples_Inclusive(t, Tail(events), duration)
             elapsed == t - e.timestamp
         IN  IF IsClick(e) /\ elapsed >= 0 /\ elapsed <= duration
             THEN <<ActiveRipple(e.x, e.y, Rat(elapsed, duration))>> \o rest
             ELSE rest

RECURSIVE get_active_ripples(_, _, _)
get_active_ripples(t, events, duration) ==
    IF events = <<>> THEN <<>>
    ELSE LET e == Head(events)
             rest == get_active_ripples(t, Tail(events), duration)
             elapsed == t - e.timestamp
         IN  IF IsClick(e) /\ elapsed >= 0 /\ elapsed < duration
             THEN <<ActiveRipple(e.x, e.y, Rat(elapsed, duration))>> \o rest
             ELSE rest

----------------------------------------------------------------------------
(* The recorder appends events with non-decreasing timestamps; the pipeline *)
(* then loads the log and computes every output frame from it.              *)

\* The pointer follows a fixed path: the i-th event of the log is at Path(i)
Path(i) == <<10 * i, 50 - 7 * i>>

\* Distances in ticks between one event and the next
Gaps == {0, 1, 2, 6}

\* Output frame timestamps: up to the time when the last zoom has ended
FrameTimes(cfg) == 0 .. (MaxTime + pan_window(cfg) + 1)

NoSample == Sample(F(0), F(0), F(0))

NoCursor == CursorState(F(0), F(0), F(0))

\* Nothing of the compositor has run
NoMetadata == [width |-> 0, height |-> 0]
NoLayout == [scale |-> F(0), offset_x |-> 0, offset_y |-> 0,
             scaled_width |-> 0, scaled_height |-> 0]
NoZoom == [zoom |-> F(0)]
NoMotion == [phase |-> "none"]

EffectsIdle ==
    /\ metadata = NoMetadata
    /\ layout = NoLayout
    /\ zoomed = NoZoom
    /\ motion = NoMotion

\* What process_video comes to: nothing yet, Ok(()), the Err of a step (of
\* the task of a frame when the step is "frame"), or a panic
Outcome(result, step, frame) == [result |-> result, step |-> step, frame |-> frame]

NoOutcome == Outcome("none", "none", 0)

Flags(no_cursor, no_motion_blur, no_click_highlight) ==
    [no_cursor |-> no_cursor, no_motion_blur |-> no_motion_blur,
     no_click_highlight |-> no_click_highlight]

NoImage == [frame |-> 0, timestamp |-> F(0), steps |-> <<>>]

\* No frame is being composited
RenderIdle ==
    /\ flags = Flags(FALSE, FALSE, FALSE)
    /\ time_offset = F(0)
    /\ final_img = NoImage

\* CursorTracker::new(): no Sender, no thread
CursorTracker(stop_tx, thread_handle, elapsed) ==
    [stop_tx |-> stop_tx, thread_handle |-> thread_handle, elapsed |-> elapsed]

\* An mpsc channel seen from its Receiver
Receiver(queue, connected) == [queue |-> queue, connected |-> connected]

\* The pointer the polling loop saw last
Pointer(x, y, left, right) == [x |-> x, y |-> y, left |-> left, right |-> right]

\* The tracking thread: where it is, the AtomicBool `running` and the
\* thread of run_record_tracking, last_x, last_y and last_buttons
Thread(at, flag, record_thread, last) ==
    [pc |-> at, running |-> flag, record_thread |-> record_thread, last |-> last]

NoThread == Thread("none", FALSE, "none", Pointer(0, 0, FALSE, FALSE))

\* The caller of the tracker: where it is, and what stop returned
Caller(at, events, duration) == [pc |-> at, events |-> events, duration |-> duration]

CaptureSession(flag, reader, frame_count) ==
    [running |-> flag, reader |-> reader, frame_count |-> frame_count]

VideoEncoder(state, written) == [state |-> state, written |-> written]

\* What record_display returned and the step that ended it
Recorded(status, step) == [status |-> status, step |-> step]

NotRecorded == Recorded("none", "none")

TrackerIdle ==
    /\ platform = "linux"
    /\ tracker = CursorTracker("None", "None", 0)
    /\ stop_rx = Receiver(<<>>, FALSE)
    /\ thread = NoThread
    /\ caller = Caller("new", <<>>, 0)

RecorderIdle ==
    /\ session = CaptureSession(FALSE, "none", 0)
    /\ channel = <<>>
    /\ received = <<>>
    /\ encoder = VideoEncoder("none", <<>>)
    /\ running = FALSE
    /\ rec_pc = "none"
    /\ saved = FALSE
    /\ recorded = NotRecorded

\* Nothing is being recorded
RecordIdle == TrackerIdle /\ RecorderIdle

\* Option<T>: None and Some(v)
Some(v) == [some |-> TRUE, v |-> v]
NoneStr == [some |-> FALSE, v |-> <<>>]
NoneF64 == [some |-> FALSE, v |-> F(0)]

unwrap_or(o, default) == IF o.some THEN o.v ELSE default

Args(background, trim_start, trim_end) ==
    [background |-> background, trim_start |-> trim_start, trim_end |-> trim_end]

NoArgs == Args(NoneStr, NoneF64, NoneF64)

\* enum Background: Color(Rgba) or Image(path of the image it was read from)
Background(kind, value) == [kind |-> kind, value |-> value]

NoBackground == Background("none", <<>>)

Counts(source, output, fps) == [source |-> source, output |-> output, fps |-> fps]

\* process_video has not been called
DriverIdle ==
    /\ driver = "none"
    /\ pc = "idle"
    /\ args = NoArgs
    /\ original_duration = F(0)
    /\ bg = NoBackground
    /\ trimmed_duration = F(0)
    /\ counts = Counts(0, 0, F(0))
    /\ frames_dir = <<>>
    /\ source_frames = <<>>
    /\ task = <<>>
    /\ processed = 0
    /\ pb = 0
    /\ encoded = <<>>
    /\ outcome = NoOutcome
    /\ cancel = FALSE

Init ==
    /\ cursor_events = <<>>
    /\ config \in Configs
    /\ phase = "record"
    /\ timestamp = 0
    /\ effective = <<>>
    /\ trajectory = NoSample
    /\ ripples = <<>>
    /\ cursor = NoCursor
    /\ EffectsIdle
    /\ DriverIdle
    /\ RenderIdle
    /\ RecordIdle

\* event_tap: one more event is pushed to the log
RecordEvent(gap, kind) ==
    LET now == IF cursor_events = <<>> THEN gap
               ELSE Last(cursor_events).timestamp + gap
        pos == Path(Len(cursor_events) + 1)
    IN  /\ phase = "record"
        /\ Len(cursor_events) < MaxEvents
        /\ now <= MaxTime
        /\ cursor_events' = Append(cursor_events, CursorEvent(pos[1], pos[2], now, kind))
        /\ UNCHANGED <<config, phase, timestamp, effective, trajectory, ripples, cursor>>
        /\ UNCHANGED <<effectVars, driverVars, renderVars, recordVars>>

\* process_video: the metadata is loaded, the log is read-only from here on
LoadMetadata ==
    /\ phase = "record"
    /\ phase' = "loaded"
    /\ UNCHANGED <<cursor_events, config, timestamp, effective, trajectory, ripples, cursor>>
    /\ UNCHANGED <<effectVars, driverVars, renderVars, recordVars>>

\* process_frames_parallel: the task of one output frame.  A worker starts at
\* any frame and goes on with the frame after it.
ProcessFrame(t) ==
    /\ \/ phase = "loaded"
       \/ phase = "frame" /\ t = timestamp + 1
    /\ phase' = "frame"
    /\ timestamp' = t
    /\ effective' = get_effective_clicks(cursor_events, config)
    /\ trajectory' = calculate_zoom(t, cursor_events, config)
    /\ ripples' = get_active_ripples(t, cursor_events, ClickHighlightConfig.duration)
    /\ cursor' = get_smoothed_cursor(t, cursor_events, CursorConfig)
    /\ UNCHANGED <<cursor_events, config>>
    /\ UNCHANGED <<effectVars, driverVars, renderVars, recordVars>>

Next ==
    \/ \E gap \in Gaps, kind \in EventType : RecordEvent(gap, kind)
    \/ LoadMetadata
    \/ \E t \in FrameTimes(config) : ProcessFrame(t)

Spec == Init /\ [][Next]_vars

\* The same program run with the slow configurations
InitSlow ==
    /\ cursor_events = <<>>
    /\ config \in SlowConfigs
    /\ phase = "record"
    /\ timestamp = 0
    /\ effective = <<>>
    /\ trajectory = NoSample
    /\ ripples = <<>>
    /\ cursor = NoCursor
    /\ EffectsIdle
    /\ DriverIdle
    /\ RenderIdle
    /\ RecordIdle

SpecSlow == InitSlow /\ [][Next]_vars

----------------------------------------------------------------------------
(* The compositor's geometry: the layout of a recording of every size, the  *)
(* crop window of every zoom and focus, the phase of every motion.          *)

SourceWidths == {1, 800, 801, 1280, 1720, 1721, 1920, 2560, 3840}
SourceHeights == {1, 600, 601, 720, 880, 881, 1080, 1600, 2160}

\* Zoom levels above the 1.01 at which the pipeline zooms: the ends and the
\* thirds of an ease-in to max_zoom 1.5, the 1.8 of the tests, and 2
ZoomLevels == {<<73, 54>>, <<40, 27>>, <<3, 2>>, <<9, 5>>, <<2, 1>>}

\* Focus points in the interior of the canvas
FocusXs == {F(1), F(186), <<1925, 2>>, F(960), F(963), F(1919)}
FocusYs == {F(1), F(540), <<1083, 2>>, F(1079)}

ZoomSamples == {F(1), <<201, 200>>, <<101, 100>>, <<3, 2>>}
ZoomVelocities == {<<-1, 2>>, <<-1, 20>>, F(0), <<1, 20>>, <<3, 50>>}
PanVelocitiesX == {-51, 0, 30, 49, 50, 51}
PanVelocitiesY == {-40, 0, 40}

InitEffects ==
    /\ cursor_events = <<>>
    /\ config \in Configs
    /\ phase = "effects"
    /\ timestamp = 0
    /\ effective = <<>>
    /\ trajectory = NoSample
    /\ ripples = <<>>
    /\ cursor = NoCursor
    /\ EffectsIdle
    /\ DriverIdle
    /\ RenderIdle
    /\ RecordIdle

\* process_frames_parallel: the layout is calculated once from the metadata
CalculateLayout(w, h) ==
    /\ EffectsIdle
    /\ phase = "effects"
    /\ metadata' = [width |-> w, height |-> h]
    /\ layout' \in calculate(w, h)
    /\ UNCHANGED <<zoomed, motion>>
    /\ UNCHANGED <<frameVars, driverVars, renderVars, recordVars>>

\* The per-frame closure zooms the canvas around the focus
ApplyZoom(zoom, cursor_x, cursor_y) ==
    /\ EffectsIdle
    /\ phase = "effects"
    /\ zoomed' = [width |-> OUTPUT_WIDTH, height |-> OUTPUT_HEIGHT, zoom |-> zoom,
                  cursor_x |-> cursor_x, cursor_y |-> cursor_y,
                  view |-> apply_zoom(OUTPUT_WIDTH, OUTPUT_HEIGHT, zoom, cursor_x, cursor_y)]
    /\ UNCHANGED <<metadata, layout, motion>>
    /\ UNCHANGED <<frameVars, driverVars, renderVars, recordVars>>

\* calculate_motion_state: the phase of the velocities of the frame
DetermineMotionPhase(zoom, zoom_velocity, pan_vx, pan_vy) ==
    /\ EffectsIdle
    /\ phase = "effects"
    /\ motion' = MotionState(zoom, zoom_velocity, F(pan_vx), F(pan_vy))
    /\ UNCHANGED <<metadata, layout, zoomed>>
    /\ UNCHANGED <<frameVars, driverVars, renderVars, recordVars>>

NextEffects ==
    \/ \E w \in SourceWidths, h \in SourceHeights : CalculateLayout(w, h)
    \/ \E zoom \in ZoomLevels, x \in FocusXs, y \in FocusYs : ApplyZoom(zoom, x, y)
    \/ \E zoom \in ZoomSamples, zv \in ZoomVelocities,
          vx \in PanVelocitiesX, vy \in PanVelocitiesY :
              DetermineMotionPhase(zoom, zv, vx, vy)

SpecEffects == InitEffects /\ [][NextEffects]_vars

----------------------------------------------------------------------------
(* process_video: frames are extracted to a temporary directory, the        *)
(* per-frame tasks run on the rayon pool in any order, their results are    *)
(* collected, and the encoder is run on the directory.  A file is named by  *)
(* its prefix and its number; image formats are not modelled.               *)

Drivers == {"pipeline", "processor"}

FileName(prefix, num) == [prefix |-> prefix, num |-> num]

\* An extracted source frame, and a frame composited from one
SourceFrame(i) == [kind |-> "source", index |-> i]
Composited(k, content) == [kind |-> "composited", frame |-> k, content |-> content]

\* The directory with one more file, or one file overwritten
WriteFile(dir, name, content) ==
    [n \in DOMAIN dir \cup {name} |-> IF n = name THEN content ELSE dir[n]]

\* Background::parse: a string of six hex digits after its leading '#'s is
\* a colour, any other string is the path of an image to open
HexDigits == {"0", "1", "2", "3", "4", "5", "6", "7", "8", "9",
              "a", "b", "c", "d", "e", "f", "A", "B", "C", "D", "E", "F"}

is_ascii_hexdigit(c) == c \in HexDigits

RECURSIVE trim_start_matches(_, _)
trim_start_matches(str, c) ==
    IF str # <<>> /\ Head(str) = c THEN trim_start_matches(Tail(str), c) ELSE str

\* The value of one hex digit, and u8::from_str_radix(_, 16) of two
digit_value(c) ==
    CASE c \in {"a", "A"} -> 10 [] c \in {"b", "B"} -> 11 [] c \in {"c", "C"} -> 12
      [] c \in {"d", "D"} -> 13 [] c \in {"e", "E"} -> 14 [] c \in {"f", "F"} -> 15
      [] OTHER -> CHOOSE v \in 0..9 : c = <<"0", "1", "2", "3", "4", "5", "6", "7", "8", "9">>[v + 1]

from_str_radix(pair) == 16 * digit_value(pair[1]) + digit_value(pair[2])

\* The image files of the environment that image::open can read
ReadableImages == {<<"b", "g", ".", "p", "n", "g">>}

parse(input) ==
    IF ~input.some
    THEN [ok |-> TRUE, bg |-> Background("Color", <<26, 26, 46, 255>>)]
    ELSE LET hex == trim_start_matches(input.v, "#")
         IN  IF Len(hex) = 6 /\ \A i \in 1..6 : is_ascii_hexdigit(hex[i])
             THEN [ok |-> TRUE,
                   bg |-> Background("Color", <<from_str_radix(SubSeq(hex, 1, 2)),
                                                from_str_radix(SubSeq(hex, 3, 4)),
                                                from_str_radix(SubSeq(hex, 5, 6)), 255>>)]
             ELSE IF input.v \in ReadableImages
                  THEN [ok |-> TRUE, bg |-> Background("Image", input.v)]
                  ELSE [ok |-> FALSE, bg |-> NoBackground]

\* trimmed_duration without the .max(0.0) of the trim arguments
trim_NoMax(d0, trim_start, trim_end) ==
    Max(Sub(Sub(d0, unwrap_or(trim_start, F(0))), unwrap_or(trim_end, F(0))), F(0))

\* trimmed_duration: the trim arguments are clamped at 0, and so is the rest
trim(d0, trim_start, trim_end) ==
    LET trim_start_secs == Max(unwrap_or(trim_start, F(0)), F(0))
        trim_end_secs == Max(unwrap_or(trim_end, F(0)), F(0))
    IN  Max(Sub(Sub(d0, trim_start_secs), trim_end_secs), F(0))

\* f64::ceil and f64::floor followed by `as usize`, of a value that is not negative
ceil(q) == (q[1] + q[2] - 1) \div q[2]
floor(q) == q[1] \div q[2]

target_fps == 60

\* source_fps: frame_count / trimmed_duration
source_fps(frame_count, duration) ==
    IF Lt(F(0), duration) THEN Div(F(frame_count), duration) ELSE F(30)

\* usize::MAX stands for 2^64 - 1: larger than any frame index of the model
usize_MAX == 2147483647

\* a - b on usize in a release build: the difference wraps
wrapping_sub(a, b) == IF a >= b THEN a - b ELSE usize_MAX - (b - a) + 1

\* source_idx without the .min(source_frame_count - 1)
source_idx_NoMin(k, cnt) == floor(Mul(Div(F(k - 1), F(target_fps)), cnt.fps))

\* source_idx: the source frame nearest to output frame k, counted from 0:
\* floor(timestamp * source_fps), at most source_frame_count - 1
source_idx(k, cnt) ==
    LET t == Div(F(k - 1), F(target_fps))
        idx == floor(Mul(t, cnt.fps))
        last == wrapping_sub(cnt.source, 1)
    IN  IF idx < last THEN idx ELSE last

\* output_path without the frame number
output_path_Shared(d, k) ==
    IF d = "pipeline" THEN FileName("out", 1) ELSE FileName("frame", 1)

\* The file a task saves its frame to: out_k in the pipeline, the source
\* frame file itself in processor.rs
output_path(d, k) ==
    IF d = "pipeline" THEN FileName("out", k) ELSE FileName("frame", k)

\* The frame task k composites
composite(d, k, cnt, frames, dir) ==
    IF d = "pipeline"
    THEN Composited(k, frames[source_idx(k, cnt) + 1])
    ELSE Composited(k, dir[FileName("frame", k)])

\* encode_video: the pattern frame_%06d names the files the encoder reads,
\* from number `from` on while the next number exists
RECURSIVE read_sequence(_, _, _)
read_sequence(dir, prefix, from) ==
    IF FileName(prefix, from) \in DOMAIN dir
    THEN <<dir[FileName(prefix, from)]>> \o read_sequence(dir, prefix, from + 1)
    ELSE <<>>

input_pattern == "frame"

\* `for result in results { result?; }`: the index of the first Err, or 0
first_error(results) ==
    LET failed == {k \in DOMAIN results : results[k] = "err"}
    IN  IF failed = {} THEN 0
        ELSE CHOOSE k \in failed : \A j \in failed : k <= j

\* The durations of at most MaxFrames output frames, in steps of 1/120 s
Durations == {Rat(d, 120) : d \in 1..(2 * MaxFrames)}

InitDriver ==
    /\ cursor_events = <<>>
    /\ config \in Configs
    /\ phase = "driver"
    /\ timestamp = 0
    /\ effective = <<>>
    /\ trajectory = NoSample
    /\ ripples = <<>>
    /\ cursor = NoCursor
    /\ EffectsIdle
    /\ driver \in Drivers
    /\ pc = "extract"
    /\ args = NoArgs
    /\ trimmed_duration \in Durations
    /\ original_duration = trimmed_duration
    /\ bg = parse(args.background).bg
    /\ counts = Counts(0, 0, F(0))
    /\ frames_dir = <<>>
    /\ source_frames = <<>>
    /\ task = <<>>
    /\ processed = 0
    /\ pb = 0
    /\ encoded = <<>>
    /\ outcome = NoOutcome
    /\ cancel = FALSE
    /\ RenderIdle
    /\ RecordIdle

\* The strings, the trims and the durations process_video is called with
BackgroundArgs ==
    {NoneStr,
     Some(<<"#", "1", "a", "1", "a", "2", "e">>),
     Some(<<"F", "F", "0", "0", "a", "a">>),
     Some(<<"#", "1", "a", "1", "a", "2">>),
     Some(<<"#", "z", "z", "z", "z", "z", "z">>),
     Some(<<"b", "g", ".", "p", "n", "g">>),
     Some(<<"n", "o", ".", "p", "n", "g">>)}

TrimArgs == {NoneF64, Some(Rat(-1, 120)), Some(F(0)), Some(Rat(1, 120)), Some(Rat(3, 120))}

OriginalDurations == {Rat(d, 120) : d \in 0..(2 * MaxFrames)}

\* process_video is called
InitSetup ==
    /\ cursor_events = <<>>
    /\ config \in Configs
    /\ phase = "driver"
    /\ timestamp = 0
    /\ effective = <<>>
    /\ trajectory = NoSample
    /\ ripples = <<>>
    /\ cursor = NoCursor
    /\ EffectsIdle
    /\ driver \in Drivers
    /\ pc = "metadata"
    /\ args \in {Args(b, s, e) : b \in BackgroundArgs, s \in TrimArgs, e \in TrimArgs}
    /\ original_duration = F(0)
    /\ bg = NoBackground
    /\ trimmed_duration = F(0)
    /\ counts = Counts(0, 0, F(0))
    /\ frames_dir = <<>>
    /\ source_frames = <<>>
    /\ task = <<>>
    /\ processed = 0
    /\ pb = 0
    /\ encoded = <<>>
    /\ outcome = NoOutcome
    /\ cancel = FALSE
    /\ RenderIdle
    /\ RecordIdle

Quiet == UNCHANGED <<frameVars, effectVars, renderVars, recordVars, driver, args, cancel>>

\* RecordingMetadata::load(input)?: the event log is read, or the run ends
LoadRecording(ok) ==
    /\ pc = "metadata"
    /\ IF ok
       THEN pc' = "background" /\ UNCHANGED outcome
       ELSE pc' = "done" /\ outcome' = Outcome("Err", "metadata", 0)
    /\ UNCHANGED <<original_duration, bg, trimmed_duration, counts, frames_dir,
                   source_frames, task, processed, pb, encoded>>
    /\ Quiet

\* Background::parse(background)?
ParseBackground ==
    /\ pc = "background"
    /\ IF parse(args.background).ok
       THEN /\ bg' = parse(args.background).bg
            /\ pc' = "duration"
            /\ UNCHANGED outcome
       ELSE /\ pc' = "done"
            /\ outcome' = Outcome("Err", "background", 0)
            /\ UNCHANGED bg
    /\ UNCHANGED <<original_duration, trimmed_duration, counts, frames_dir,
                   source_frames, task, processed, pb, encoded>>
    /\ Quiet

\* get_video_duration(input)? and the trim: the run ends when ffprobe
\* cannot be run or nothing is left of the video
ComputeTrim(d0, ok) ==
    /\ pc = "duration"
    /\ IF ~ok
       THEN /\ pc' = "done"
            /\ outcome' = Outcome("Err", "duration", 0)
            /\ UNCHANGED <<original_duration, trimmed_duration>>
       ELSE /\ original_duration' = d0
            /\ trimmed_duration' = trim(d0, args.trim_start, args.trim_end)
            /\ IF Le(trimmed_duration', F(0))
               THEN pc' = "done" /\ outcome' = Outcome("Err", "trim", 0)
               ELSE pc' = "extract" /\ UNCHANGED outcome
    /\ UNCHANGED <<bg, counts, frames_dir, source_frames, task, processed, pb, encoded>>
    /\ Quiet

\* extract_frames writes frame_1 .. frame_n, or fails; output_frame_count is
\* ceil(duration * 60) in the pipeline and the frame count in processor.rs
ExtractFrames(n, ok) ==
    /\ pc = "extract"
    /\ IF ok
       THEN /\ counts' = IF driver = "pipeline"
                         THEN Counts(n, ceil(Mul(trimmed_duration, F(target_fps))),
                                     source_fps(n, trimmed_duration))
                         ELSE Counts(n, n, F(target_fps))
            /\ frames_dir' = [name \in {FileName("frame", i) : i \in 1..n}
                                |-> SourceFrame(name.num)]
            /\ task' = [k \in 1..counts'.output |-> "pending"]
            /\ pc' = IF driver = "pipeline" THEN "load" ELSE "tasks"
            /\ UNCHANGED outcome
       ELSE /\ outcome' = Outcome("Err", "extract", 0)
            /\ pc' = "done"
            /\ UNCHANGED <<counts, frames_dir, task>>
    /\ UNCHANGED <<original_duration, bg, trimmed_duration, source_frames,
                   processed, pb, encoded>>
    /\ Quiet

\* The pipeline pre-loads the source frames; a frame that fails to load
\* panics: image::open(&path).expect(..)
LoadSourceFrames(ok) ==
    /\ pc = "load"
    /\ IF ok
       THEN /\ source_frames' = [i \in 1..counts.source |-> frames_dir[FileName("frame", i)]]
            /\ pc' = "tasks"
            /\ UNCHANGED outcome
       ELSE /\ outcome' = Outcome("panic", "load", 0)
            /\ pc' = "done"
            /\ UNCHANGED source_frames
    /\ UNCHANGED <<original_duration, bg, trimmed_duration, counts, frames_dir, task, processed, pb, encoded>>
    /\ Quiet

\* A worker of the pool takes the task of frame k.  In the pipeline the
\* task indexes the pre-loaded frames: without a frame of that index it
\* panics (with no source frame at all, source_frame_count - 1 overflows in
\* a debug build and wraps in a release build, where the index 0 is then
\* out of bounds).  In processor.rs the task opens its frame file first,
\* and returns the error if that fails.
StartTask(k, ok) ==
    /\ pc = "tasks"
    /\ k \in DOMAIN task
    /\ task[k] = "pending"
    /\ driver = "pipeline" => ok
    /\ task' = [task EXCEPT ![k] =
                   IF driver = "pipeline" /\ source_idx(k, counts) + 1 \notin DOMAIN source_frames
                   THEN "panic"
                   ELSE IF ok THEN "running" ELSE "err"]
    /\ UNCHANGED <<original_duration, bg, trimmed_duration, pc, counts, frames_dir, source_frames,
                   processed, pb, encoded, outcome>>
    /\ Quiet

\* The task composites its frame and saves it, or returns the error of save
SaveFrame(k, ok) ==
    /\ pc = "tasks"
    /\ k \in DOMAIN task
    /\ task[k] = "running"
    /\ IF ok
       THEN /\ frames_dir' = WriteFile(frames_dir, output_path(driver, k),
                                       composite(driver, k, counts, source_frames, frames_dir))
            /\ task' = [task EXCEPT ![k] = "saved"]
       ELSE /\ task' = [task EXCEPT ![k] = "err"]
            /\ UNCHANGED frames_dir
    /\ UNCHANGED <<original_duration, bg, trimmed_duration, pc, counts, source_frames,
                   processed, pb, encoded, outcome>>
    /\ Quiet

\* processed.fetch_add(1), the progress bar moved on every tenth count
CountFrame(k) ==
    /\ pc = "tasks"
    /\ k \in DOMAIN task
    /\ task[k] = "saved"
    /\ processed' = processed + 1
    /\ pb' = IF processed % 10 = 0 THEN processed ELSE pb
    /\ task' = [task EXCEPT ![k] = "ok"]
    /\ UNCHANGED <<original_duration, bg, trimmed_duration, pc, counts, frames_dir, source_frames, encoded, outcome>>
    /\ Quiet

\* collect() returns when every task has returned; the results are then
\* checked in the order of the frames and the first error is returned
CheckResults ==
    /\ pc = "tasks"
    /\ \A k \in DOMAIN task : task[k] \in {"ok", "err", "panic"}
    /\ IF \E k \in DOMAIN task : task[k] = "panic"
       THEN pc' = "done" /\ outcome' = Outcome("panic", "frame", 0)
       ELSE IF first_error(task) = 0
            THEN pc' = "encode" /\ UNCHANGED outcome
            ELSE pc' = "done" /\ outcome' = Outcome("Err", "frame", first_error(task))
    /\ UNCHANGED <<original_duration, bg, trimmed_duration, counts, frames_dir, source_frames, task, processed, pb, encoded>>
    /\ Quiet

\* encode_video runs the encoder on the input pattern
EncodeVideo(ok) ==
    /\ pc = "encode"
    /\ encoded' = read_sequence(frames_dir, input_pattern, 1)
    /\ outcome' = IF ok THEN Outcome("Ok", "encode", 0) ELSE Outcome("Err", "encode", 0)
    /\ pc' = "done"
    /\ UNCHANGED <<original_duration, bg, trimmed_duration, counts, frames_dir, source_frames, task, processed, pb>>
    /\ Quiet

\* The user asks the run to stop.  process_video takes no cancel flag and
\* installs no handler: nothing of the driver changes, and no step reads
\* the request.
SignalCancel ==
    /\ pc \in {"extract", "load", "tasks", "encode"}
    /\ ~cancel
    /\ cancel' = TRUE
    /\ UNCHANGED <<frameVars, effectVars, renderVars, recordVars, driver, pc, args, original_duration, bg,
                   trimmed_duration, counts, frames_dir, source_frames, task,
                   processed, pb, encoded, outcome>>

NextDriver ==
    \/ SignalCancel
    \/ \E n \in 0..MaxFrames, ok \in BOOLEAN : ExtractFrames(n, ok)
    \/ \E ok \in BOOLEAN : LoadSourceFrames(ok)
    \/ \E k \in 1..MaxFrames, ok \in BOOLEAN : StartTask(k, ok)
    \/ \E k \in 1..MaxFrames, ok \in BOOLEAN : SaveFrame(k, ok)
    \/ \E k \in 1..MaxFrames : CountFrame(k)
    \/ CheckResults
    \/ \E ok \in BOOLEAN : EncodeVideo(ok)

SpecDriver == InitDriver /\ [][NextDriver]_vars

\* process_video from its call to the dispatch of the per-frame tasks
NextSetup ==
    \/ \E ok \in BOOLEAN : LoadRecording(ok)
    \/ ParseBackground
    \/ \E d0 \in OriginalDurations, ok \in BOOLEAN : ComputeTrim(d0, ok)
    \/ \E n \in 0..MaxFrames, ok \in BOOLEAN : ExtractFrames(n, ok)

SpecSetup == InitSetup /\ [][NextSetup]_vars


----------------------------------------------------------------------------
(* The task of one output frame, step by step.  Here one tick of the event  *)
(* log is 1/120 s, the DT of the motion estimator, and an output frame      *)
(* takes two ticks.                                                         *)

DT == <<1, 120>>

\* Seconds to ticks, for a time that is a whole number of ticks
ticks(seconds) == seconds[1] * (120 \div seconds[2])

RecordingMetadata(width, height, scale_factor, window_offset, cursor_to_video_offset, cursor_tracking_duration) ==
    [width |-> width, height |-> height, scale_factor |-> scale_factor,
     window_offset |-> window_offset,
     cursor_to_video_offset |-> cursor_to_video_offset,
     cursor_tracking_duration |-> cursor_tracking_duration]

\* base_time_offset as processor.rs has it: from the durations alone
base_time_offset_FromDurations(md, d0) ==
    IF Lt(F(0), md.cursor_tracking_duration) THEN Sub(md.cursor_tracking_duration, d0)
    ELSE F(0)

\* base_time_offset: the offset recorded at capture time if there is one,
\* else the difference of the durations, else 0
base_time_offset(md, d0) ==
    IF Lt(F(0), md.cursor_to_video_offset) THEN md.cursor_to_video_offset
    ELSE IF Lt(F(0), md.cursor_tracking_duration) THEN Sub(md.cursor_tracking_duration, d0)
    ELSE F(0)

\* The closure to_canvas, along one axis.  Screen points to canvas pixels along one axis: the layout's offset plus
\* the window-relative pixel times the layout's scale
canvas_coord(c, lay_offset, lay_scale, window_offset, scale_factor) ==
    Add(F(lay_offset),
        Mul(Sub(Mul(c, scale_factor), Mul(F(window_offset), scale_factor)), lay_scale))

\* calculate_motion_state: central differences of the trajectory over DT,
\* t in ticks; the sample before t is taken at (timestamp - DT).max(0.0)
calculate_motion_state(t, events, cfg, lay, window_offset, scale_factor) ==
    LET before == IF t - 1 > 0 THEN t - 1 ELSE 0
        prev == calculate_zoom(before, events, cfg)
        curr == calculate_zoom(t, events, cfg)
        next == calculate_zoom(t + 1, events, cfg)
        zoom_velocity == Div(Sub(next.zoom, prev.zoom), Mul(F(2), DT))
        X(sample) == canvas_coord(sample.x, lay.offset_x, lay.scale, window_offset[1], scale_factor)
        Y(sample) == canvas_coord(sample.y, lay.offset_y, lay.scale, window_offset[2], scale_factor)
        pan_velocity_x == Div(Sub(X(next), X(prev)), Mul(F(2), DT))
        pan_velocity_y == Div(Sub(Y(next), Y(prev)), Mul(F(2), DT))
    IN  MotionState(curr.zoom, zoom_velocity, pan_velocity_x, pan_velocity_y)

\* One drawing step of a frame, and the event time it was computed for
\* (none for the steps that do not depend on the time)
Step(op, at) == [op |-> op, at |-> at]

Untimed == <<>>

\* The guard of draw_cursor without the test of the opacity
draws_cursor_AnyOpacity(fl, opacity) == ~fl.no_cursor

\* The guard of draw_cursor: a cursor config, and an opacity above 0.01
draws_cursor(fl, opacity) == ~fl.no_cursor /\ Lt(<<1, 100>>, opacity)

\* timestamp: the video time of output frame k, in seconds
frame_time(k) == Div(F(k - 1), F(target_fps))

\* The closure of process_frames_parallel for output frame k: the steps it
\* draws on the canvas, in order, and the times it hands to the trajectory,
\* the cursor, the ripples and the motion estimator
render_frame(k, events, cfg, offset, fl) ==
    LET t == frame_time(k)
        adjusted_timestamp == Add(t, offset)
        zoom == calculate_zoom(ticks(adjusted_timestamp), events, cfg).zoom
        opacity == get_smoothed_cursor(ticks(adjusted_timestamp), events, CursorConfig).opacity
    IN  [frame |-> k,
         timestamp |-> adjusted_timestamp,
         steps |-> <<Step("background", Untimed), Step("shadow", Untimed),
                     Step("content", Untimed)>>
                   \o (IF draws_cursor(fl, opacity)
                       THEN <<Step("cursor", adjusted_timestamp)>> ELSE <<>>)
                   \o (IF ~fl.no_click_highlight
                       THEN <<Step("ripples", adjusted_timestamp)>> ELSE <<>>)
                   \o (IF Lt(<<101, 100>>, zoom)
                       THEN <<Step("zoom", adjusted_timestamp)>> ELSE <<>>)
                   \o (IF ~fl.no_motion_blur
                       THEN <<Step("motion_blur", adjusted_timestamp)>>
                       ELSE <<>>)]

\* The logs of the recordings that are processed, timestamps in ticks
FrameLogs ==
    { <<>>,
      <<CursorEvent(6, 4, 1, "LeftClick")>>,
      <<CursorEvent(6, 4, 0, "Move"), CursorEvent(7, 4, 4, "RightClick")>>,
      <<CursorEvent(6, 4, 2, "LeftClick"), CursorEvent(9, 4, 7, "LeftClick")>> }

\* The timing fields of the recordings, and the trims, in seconds
Recordings ==
    { RecordingMetadata(1720, 880, sf, <<5, 3>>, c2v, ctd) :
        sf \in {<<1, 2>>, <<2, 1>>},
        c2v \in {F(0), Rat(3, 120)},
        ctd \in {F(0), Rat(4, 120)} }

FrameTrims == {NoneF64, Some(Rat(-1, 120)), Some(Rat(2, 120))}

FrameFlags == {Flags(c, m, h) : c \in BOOLEAN, m \in BOOLEAN, h \in BOOLEAN}

\* process_video after the frames were extracted
InitFrame ==
    /\ cursor_events \in FrameLogs
    /\ config \in Configs
    /\ phase = "offset"
    /\ timestamp = 0
    /\ effective = <<>>
    /\ trajectory = NoSample
    /\ ripples = <<>>
    /\ cursor = NoCursor
    /\ metadata \in Recordings
    /\ layout \in calculate(metadata.width, metadata.height)
    /\ zoomed = NoZoom
    /\ motion = NoMotion
    /\ driver = "pipeline"
    /\ pc = "offset"
    /\ args \in {Args(NoneStr, s, NoneF64) : s \in FrameTrims}
    /\ original_duration = Rat(2 * MaxFrames, 120)
    /\ bg = parse(NoneStr).bg
    /\ trimmed_duration = trim(original_duration, args.trim_start, args.trim_end)
    /\ counts = Counts(0, 0, F(0))
    /\ frames_dir = <<>>
    /\ source_frames = <<>>
    /\ task = <<>>
    /\ processed = 0
    /\ pb = 0
    /\ encoded = <<>>
    /\ outcome = NoOutcome
    /\ cancel = FALSE
    /\ flags \in FrameFlags
    /\ time_offset = F(0)
    /\ final_img = NoImage
    /\ RecordIdle

\* process_video: time_offset = base_time_offset + trim_start_secs
ComputeOffset ==
    /\ phase = "offset"
    /\ phase' = "frames"
    /\ time_offset' = Add(base_time_offset(metadata, original_duration),
                          Max(unwrap_or(args.trim_start, F(0)), F(0)))
    /\ UNCHANGED <<cursor_events, config, timestamp, effective, trajectory, ripples, cursor>>
    /\ UNCHANGED <<effectVars, driverVars, flags, final_img, recordVars>>

\* The task of output frame k
CompositeFrame(k) ==
    LET t == ticks(Add(frame_time(k), time_offset))
    IN  /\ phase = "frames"
        /\ k <= ceil(Mul(trimmed_duration, F(target_fps)))
        /\ timestamp' = t
        /\ effective' = get_effective_clicks(cursor_events, config)
        /\ trajectory' = calculate_zoom(t, cursor_events, config)
        /\ cursor' = IF flags.no_cursor THEN NoCursor
                     ELSE get_smoothed_cursor(t, cursor_events, CursorConfig)
        /\ ripples' = IF flags.no_click_highlight THEN <<>>
                      ELSE get_active_ripples(t, cursor_events, ClickHighlightConfig.duration)
        /\ motion' = IF flags.no_motion_blur THEN NoMotion
                     ELSE calculate_motion_state(t, cursor_events, config, layout,
                                                 metadata.window_offset,
                                                 Max(metadata.scale_factor, F(1)))
        /\ final_img' = render_frame(k, cursor_events, config, time_offset, flags)
        /\ UNCHANGED <<cursor_events, config, phase, metadata, layout, zoomed>>
        /\ UNCHANGED <<driverVars, flags, time_offset, recordVars>>

NextFrame ==
    \/ ComputeOffset
    \/ \E k \in 1..MaxFrames : CompositeFrame(k)

SpecFrame == InitFrame /\ [][NextFrame]_vars

----------------------------------------------------------------------------
(* Claims about the debouncer *)

Framed == phase = "frame"

\* The indices of the log's click events
ClickIdx == {i \in 1..Len(cursor_events) : cursor_events[i].event_type # "Move"}

\* The indices of the log's events that are among the effective clicks (the
\* events of a log are pairwise different: each is at its own point of Path)
KeptIdx == {i \in 1..Len(cursor_events) :
              \E j \in 1..Len(effective) : effective[j] = cursor_events[i]}

IsPrefix(s, t) == Len(s) <= Len(t) /\ SubSeq(t, 1, Len(s)) = s

\* C1: the first click of the log is kept; a later click is kept iff its
\* timestamp exceeds the timestamp of the most recently kept click by strictly
\* more than config.debounce; Move events are never kept; the kept clicks are
\* in log order; of clicks with one timestamp only the first is kept.
C1_DebounceRule ==
    Framed =>
        /\ KeptIdx \subseteq ClickIdx
        /\ Len(effective) = Cardinality(KeptIdx)
        /\ \A j \in 1..Len(effective) - 1 :
               \E i, k \in KeptIdx :
                   i < k /\ effective[j] = cursor_events[i]
                         /\ effective[j + 1] = cursor_events[k]
        /\ \A i \in ClickIdx :
               IF \A k \in ClickIdx : i <= k
               THEN i \in KeptIdx
               ELSE LET before == {k \in KeptIdx : k < i}
                        last   == CHOOSE k \in before : \A m \in before : m <= k
                    IN  /\ before # {}
                        /\ i \in KeptIdx <=>
                             cursor_events[i].timestamp - cursor_events[last].timestamp
                                 > config.debounce
        /\ \A i, k \in ClickIdx :
               (i < k /\ cursor_events[i].timestamp = cursor_events[k].timestamp)
                   => k \notin KeptIdx

\* C1 witness: a log with a Move, a kept click and a click dropped at exactly
\* `debounce` after the kept one
C1_Witness ==
    /\ Framed
    /\ \E i \in 1..Len(cursor_events) : cursor_events[i].event_type = "Move"
    /\ \E i \in KeptIdx, k \in ClickIdx \ KeptIdx :
           cursor_events[k].timestamp - cursor_events[i].timestamp = config.debounce

\* C7: debouncing the effective clicks again returns the same sequence.
C7_DebounceIdempotent ==
    Framed => get_effective_clicks(effective, config) = effective

\* C7 witness: the debouncer has dropped a click and kept two
C7_Witness ==
    /\ Framed
    /\ Len(effective) = 2
    /\ ClickIdx \ KeptIdx # {}

\* C8: the effective clicks of every prefix of the log are a prefix of the
\* effective clicks of the log.
\* So the first planner, which debounces only the clicks at or before the
\* frame's timestamp, finds the last two effective clicks at or before it.
C8_DebouncePrefixStable ==
    Framed =>
        /\ \A n \in 0..Len(cursor_events) :
               IsPrefix(get_effective_clicks(SubSeq(cursor_events, 1, n), config),
                        effective)
        /\ LET past == SelectSeq(effective, LAMBDA c : c.timestamp <= timestamp)
               seen == SelectSeq(cursor_events,
                                 LAMBDA e : e.timestamp <= timestamp /\ IsClick(e))
           IN  find_effective_clicks(seen, config) =
                   <<LastOf(SubSeq(past, 1, Len(past) - 1)), LastOf(past)>>

\* C8 witness: a click of the log is dropped because of the click before it,
\* and a later one is kept
C8_Witness ==
    /\ Framed
    /\ \E i \in KeptIdx, k \in ClickIdx \ KeptIdx, m \in KeptIdx : i < k /\ k < m

----------------------------------------------------------------------------
(* Claims about the trajectory *)

At(c) == <<F(c.x), F(c.y)>>

Focus == <<trajectory.x, trajectory.y>>

\* The position of the latest event at or before the frame's timestamp
LatestPos ==
    LET past == {i \in 1..Len(cursor_events) : cursor_events[i].timestamp <= timestamp}
    IN  IF past = {} THEN <<F(0), F(0)>>
        ELSE At(cursor_events[CHOOSE i \in past : \A k \in past : k <= i])

\* Consecutive effective clicks j, j+1 are within the pan window
Near(j) == effective[j + 1].timestamp - effective[j].timestamp <= pan_window(config)

\* C2: between two consecutive effective clicks that are within pan_window
\* of each other, ends included, the zoom is at least max_zoom.
C2_PanConsistency ==
    Framed =>
        \A j \in 1..Len(effective) - 1 :
            (/\ Near(j)
             /\ effective[j].timestamp <= timestamp
             /\ timestamp <= effective[j + 1].timestamp)
                => Le(config.max_zoom, trajectory.zoom)

\* C2 witness: a chain of three nearby clicks, the frame in the ease-in of the third
C2_Witness ==
    /\ Framed
    /\ Len(effective) = 3
    /\ Near(1) /\ Near(2)
    /\ effective[2].timestamp < timestamp
    /\ timestamp < effective[3].timestamp
    /\ effective[3].timestamp - timestamp < config.ease_in

Isolated(j) ==
    /\ j > 1 => ~Near(j - 1)
    /\ j < Len(effective) => ~Near(j)

\* The frame is before the ease-in of the effective click after j, if any
BeforeNext(j) ==
    j < Len(effective) => timestamp < effective[j + 1].timestamp - config.ease_in

Easing == Lt(F(1), trajectory.zoom) /\ Lt(trajectory.zoom, config.max_zoom)

\* The phases of an isolated click that C4 and its amendment share
IsolatedProfile(j) ==
    LET c == effective[j]
        t == timestamp
    IN  /\ (c.timestamp - config.ease_in < t /\ t < c.timestamp)
            => Easing /\ Focus = At(c)
        /\ (c.timestamp <= t /\ t <= c.timestamp + config.hold)
            => trajectory.zoom = config.max_zoom /\ Focus = At(c)
        /\ (c.timestamp + config.hold < t
              /\ t < c.timestamp + config.hold + config.ease_out)
            => Easing /\ Focus = At(c)

\* C4 as claimed: the profile of an isolated click, idle with the focus at the
\* latest event from t_c + hold + ease_out on.
C4_IsolatedProfile_Claimed ==
    Framed =>
        \A j \in 1..Len(effective) :
            Isolated(j) =>
                /\ IsolatedProfile(j)
                /\ (effective[j].timestamp + config.hold + config.ease_out <= timestamp
                      /\ BeforeNext(j))
                    => trajectory.zoom = F(1) /\ Focus = LatestPos

\* C4 amended: at t_c + hold + ease_out itself the zoom is 1.0 and the focus
\* is still the click; the focus is at the latest event only after it.
C4_IsolatedProfile ==
    Framed =>
        \A j \in 1..Len(effective) :
            Isolated(j) =>
                /\ IsolatedProfile(j)
                /\ effective[j].timestamp + config.hold + config.ease_out = timestamp
                    => trajectory.zoom = F(1) /\ Focus = At(effective[j])
                /\ (effective[j].timestamp + config.hold + config.ease_out < timestamp
                      /\ BeforeNext(j))
                    => trajectory.zoom = F(1) /\ Focus = LatestPos

\* C4 witness: the last tick of the zoom-out of an isolated click, the pointer
\* having moved since the click
C4_Witness ==
    /\ Framed
    /\ \E j \in 1..Len(effective) :
           /\ Isolated(j)
           /\ effective[j].timestamp + config.hold + config.ease_out = timestamp
           /\ LatestPos # At(effective[j])

\* C5: the zoom is between 1.0 and max_zoom.
C5_ZoomRange ==
    Framed => Le(F(1), trajectory.zoom) /\ Le(trajectory.zoom, config.max_zoom)

\* C5 witness: a frame strictly inside a zoom-out
C5_Witness ==
    /\ Framed
    /\ Easing
    /\ \E j \in 1..Len(effective) :
           /\ effective[j].timestamp + config.hold < timestamp
           /\ timestamp < effective[j].timestamp + config.hold + config.ease_out

\* C6: with an empty log the trajectory is (1.0, 0, 0); with a log without
\* clicks it is 1.0 at the position of the latest event at or before t, or at
\* (0, 0) before the first event.
C6_NoClicksIdle ==
    /\ (Framed /\ cursor_events = <<>>) => trajectory = Sample(F(1), F(0), F(0))
    /\ (Framed /\ ClickIdx = {})
           => trajectory = Sample(F(1), LatestPos[1], LatestPos[2])

\* C6 witness: a log of Move events only, the frame at the time of the second
C6_Witness ==
    /\ Framed
    /\ ClickIdx = {}
    /\ Len(cursor_events) >= 2
    /\ cursor_events[1].timestamp < timestamp
    /\ cursor_events[2].timestamp = timestamp

----------------------------------------------------------------------------
(* Claims about the click ripples *)

\* The clicks whose ripple is running at the frame's timestamp
ActiveIdx ==
    {i \in ClickIdx :
        /\ 0 <= timestamp - cursor_events[i].timestamp
        /\ timestamp - cursor_events[i].timestamp < ClickHighlightConfig.duration}

\* C10: there is exactly one ripple for each click, debounced or not, with
\* 0 <= t - t_c < duration, at the click's position and with progress
\* (t - t_c)/duration in [0, 1), and no other ripple.
C10_ActiveRipples ==
    Framed =>
        /\ Len(ripples) = Cardinality(ActiveIdx)
        /\ \A i \in ActiveIdx :
               \E k \in 1..Len(ripples) :
                   /\ ripples[k].x = cursor_events[i].x
                   /\ ripples[k].y = cursor_events[i].y
                   /\ ripples[k].progress[1] * ClickHighlightConfig.duration
                        = (timestamp - cursor_events[i].timestamp) * ripples[k].progress[2]
        /\ \A k \in 1..Len(ripples) :
               /\ \E i \in ActiveIdx : ripples[k].x = cursor_events[i].x
               /\ Le(F(0), ripples[k].progress)
               /\ Lt(ripples[k].progress, F(1))

\* C10 witness: two ripples at once, one of a click that the debouncer drops,
\* while a Move and a click still to come give none
C10_Witness ==
    /\ Framed
    /\ Len(ripples) = 2
    /\ ActiveIdx \ KeptIdx # {}
    /\ Len(cursor_events) > 2

----------------------------------------------------------------------------
(* Continuity of the trajectory.  One tick stands for the step 1e-6 s of the *)
(* claim: calculate_zoom only compares and divides times, so its result is   *)
(* the same in any unit of time.                                             *)

AbsDiff(a, b) == LET d == Sub(a, b) IN <<Abs(d[1]), d[2]>>

\* |a - b| < 1e-4
Within1em4(a, b) == LET d == AbsDiff(a, b) IN d[1] <= (d[2] - 1) \div 10000

\* The times at which the phase of the trajectory changes
TransitionTimes ==
    UNION { { effective[j].timestamp - config.ease_in,
              effective[j].timestamp,
              effective[j].timestamp + config.hold,
              effective[j].timestamp + config.hold + config.ease_out }
            : j \in 1..Len(effective) }

Neighbourhood == {timestamp - 1, timestamp, timestamp + 1}

\* No click and no phase transition in the neighbourhood of the frame
AwayFromTransitions == Framed /\ Neighbourhood \cap TransitionTimes = {}

\* No event of any kind in the neighbourhood either
AwayFromEvents ==
    /\ AwayFromTransitions
    /\ \A i \in 1..Len(cursor_events) : cursor_events[i].timestamp \notin Neighbourhood

Around == {calculate_zoom(s, cursor_events, config) : s \in {timestamp - 1, timestamp + 1}}

\* C9 as claimed: away from click times and phase-transition times the
\* trajectory one step before and one step after differs from the trajectory
\* at t by less than 1e-4 in zoom, focus_x and focus_y.
C9_Continuity_Claimed ==
    AwayFromTransitions =>
        \A T \in Around :
            /\ Within1em4(T.zoom, trajectory.zoom)
            /\ Within1em4(T.x, trajectory.x)
            /\ Within1em4(T.y, trajectory.y)

\* The effective clicks around the frame when the focus pans between them
PanPair ==
    {j \in 1..Len(effective) - 1 :
        /\ Near(j)
        /\ effective[j].timestamp < timestamp
        /\ timestamp < effective[j + 1].timestamp}

MinEase == IF config.ease_in <= config.ease_out THEN config.ease_in ELSE config.ease_out

\* The largest change per step: 3 is the steepest slope of the cubic easings
ZoomStep == Div(Mul(F(3), Sub(config.max_zoom, F(1))), F(MinEase))

FocusStepX ==
    IF PanPair = {} THEN F(0)
    ELSE LET j == CHOOSE j \in PanPair : TRUE
         IN  Rat(3 * Abs(effective[j + 1].x - effective[j].x), config.ease_in)

FocusStepY ==
    IF PanPair = {} THEN F(0)
    ELSE LET j == CHOOSE j \in PanPair : TRUE
         IN  Rat(3 * Abs(effective[j + 1].y - effective[j].y), config.ease_in)

\* C9 amended: away from the timestamps of all events, Move events included,
\* and from the phase-transition times, one step changes the zoom by at most
\* 3 (max_zoom - 1) / min(ease_in, ease_out) per unit of time, and the focus
\* by at most 3 |next - prev| / ease_in per unit of time while it pans from
\* the effective click prev to next, and not at all otherwise.
C9_Continuity ==
    AwayFromEvents =>
        \A T \in Around :
            /\ Le(AbsDiff(T.zoom, trajectory.zoom), ZoomStep)
            /\ PanPair = {} => (T.zoom = trajectory.zoom \/ Easing)
            /\ Le(AbsDiff(T.x, trajectory.x), FocusStepX)
            /\ Le(AbsDiff(T.y, trajectory.y), FocusStepY)

\* C9 witness: a frame in the middle of a pan, the focus moving on both sides
C9_Witness ==
    /\ AwayFromEvents
    /\ PanPair # {}
    /\ \A T \in Around : T.x # trajectory.x /\ T.zoom = trajectory.zoom
    /\ Cardinality(Around) = 2

----------------------------------------------------------------------------
(* Claims about the cursor *)

\* The events at or before the frame
BeforeIdx == {i \in 1..Len(cursor_events) : cursor_events[i].timestamp <= timestamp}

\* The timestamp of the latest of them
LatestTime ==
    CHOOSE m \in {cursor_events[i].timestamp : i \in BeforeIdx} :
        \A i \in BeforeIdx : cursor_events[i].timestamp <= m

Idle == timestamp - LatestTime

FadeProgress == Rat(Idle - CursorConfig.inactivity_timeout, CursorConfig.fade_duration)

\* C11: the cursor opacity is 0 when no event is at or before t; otherwise,
\* with idle the time since the latest event at or before t, it is 1 for
\* idle < inactivity_timeout, 1 - ease_out_cubic((idle - inactivity_timeout)
\* / fade_duration), which is (1 - progress)^3, during the fade, and 0 from
\* inactivity_timeout + fade_duration on; it always lies in [0, 1].
C11_ActivityOpacity ==
    Framed =>
        /\ Le(F(0), cursor.opacity) /\ Le(cursor.opacity, F(1))
        /\ BeforeIdx = {} => cursor.opacity = F(0)
        /\ BeforeIdx # {} =>
            /\ Idle < CursorConfig.inactivity_timeout => cursor.opacity = F(1)
            /\ (/\ CursorConfig.inactivity_timeout <= Idle
                /\ Idle < CursorConfig.inactivity_timeout + CursorConfig.fade_duration)
                    => cursor.opacity = Powi3(Sub(F(1), FadeProgress))
            /\ Idle >= CursorConfig.inactivity_timeout + CursorConfig.fade_duration
                    => cursor.opacity = F(0)

\* C11 witness: a frame in the middle of the fade, after two or more events
C11_Witness ==
    /\ Framed
    /\ Cardinality(BeforeIdx) >= 2
    /\ cursor_events[1].timestamp < LatestTime
    /\ Lt(F(0), cursor.opacity) /\ Lt(cursor.opacity, F(1))

\* C12: from the timestamp of the last event of the log on, the opacity of a
\* later frame is never greater than the opacity of an earlier one.
C12_OpacityMonotone ==
    [][(/\ phase = "frame" /\ phase' = "frame"
        /\ cursor_events # <<>>
        /\ timestamp >= Last(cursor_events).timestamp
        /\ timestamp' >= timestamp)
            => Le(cursor'.opacity, cursor.opacity)]_vars

\* C12 witness: after the last event, a frame in the fade that follows a
\* frame of full opacity
C12_Witness ==
    /\ Framed
    /\ cursor_events # <<>>
    /\ timestamp - 1 >= Last(cursor_events).timestamp
    /\ calculate_activity_opacity(timestamp - 1, cursor_events, CursorConfig) = F(1)
    /\ Lt(cursor.opacity, F(1))

\* The events in the smoothing window [t - 2 sigma, t + sigma / 2]
WindowIdx ==
    {i \in 1..Len(cursor_events) :
        /\ Le(Sub(F(timestamp), F(2 * CursorConfig.smooth_window)), F(cursor_events[i].timestamp))
        /\ Le(F(cursor_events[i].timestamp),
              Add(F(timestamp), Rat(CursorConfig.smooth_window, 2)))}

\* C13: when the window holds an event, the smoothed position lies in the
\* bounding box of the positions of the events of the window, and is the
\* position of the event when there is exactly one.
C13_SmoothingBounded ==
    (Framed /\ WindowIdx # {}) =>
        /\ \E i \in WindowIdx : Le(F(cursor_events[i].x), cursor.x)
        /\ \E i \in WindowIdx : Le(cursor.x, F(cursor_events[i].x))
        /\ \E i \in WindowIdx : Le(F(cursor_events[i].y), cursor.y)
        /\ \E i \in WindowIdx : Le(cursor.y, F(cursor_events[i].y))
        /\ \A i \in WindowIdx :
               WindowIdx = {i} => /\ cursor.x = F(cursor_events[i].x)
                                  /\ cursor.y = F(cursor_events[i].y)

\* C13 witness: three events in the window, the smoothed position strictly
\* inside their bounding box
C13_Witness ==
    /\ Framed
    /\ Cardinality(WindowIdx) = 3
    /\ \A i \in WindowIdx : cursor.x # F(cursor_events[i].x)

----------------------------------------------------------------------------
(* Claims about the compositor's geometry *)

PhaseFound == motion # NoMotion

PanSpeedSquared ==
    motion.pan_velocity_x[1] * motion.pan_velocity_x[1]
        + motion.pan_velocity_y[1] * motion.pan_velocity_y[1]

\* C14: the phase is Idle when zoom < 1.01; otherwise ZoomIn when the zoom
\* velocity is above 0.05; otherwise ZoomOut when it is below -0.05;
\* otherwise Pan when the pan speed is strictly above 50; otherwise Hold.
\* A pan speed of 49 or of exactly 50 gives Hold, of 51 Pan.
C14_MotionPhaseOrder ==
    PhaseFound =>
        LET zoomedIn == Le(<<101, 100>>, motion.zoom)
            steady == /\ Le(motion.zoom_velocity, <<1, 20>>)
                      /\ Le(<<-1, 20>>, motion.zoom_velocity)
        IN  /\ motion.phase = "Idle" <=> ~zoomedIn
            /\ motion.phase = "ZoomIn" <=> (zoomedIn /\ Lt(<<1, 20>>, motion.zoom_velocity))
            /\ motion.phase = "ZoomOut" <=> (zoomedIn /\ Lt(motion.zoom_velocity, <<-1, 20>>))
            /\ motion.phase = "Pan" <=> (zoomedIn /\ steady /\ PanSpeedSquared > 2500)
            /\ motion.phase = "Hold" <=> (zoomedIn /\ steady /\ PanSpeedSquared <= 2500)
            /\ (zoomedIn /\ steady /\ motion.pan_velocity_y = F(0)) =>
                /\ motion.pan_velocity_x \in {F(49), F(50)} => motion.phase = "Hold"
                /\ motion.pan_velocity_x = F(51) => motion.phase = "Pan"

\* C14 witness: zoomed in, zoom velocity on the threshold, pan speed exactly
\* 50 from the velocities (30, 40)
C14_Witness ==
    /\ PhaseFound
    /\ motion.zoom = <<3, 2>>
    /\ motion.zoom_velocity = <<1, 20>>
    /\ motion.pan_velocity_x = F(30) /\ motion.pan_velocity_y = F(40)
    /\ motion.phase = "Hold"

Zoomed == zoomed # NoZoom

\* Where the crop and the resize back to the size of the image put a point
MappedX(x) ==
    Div(Mul(Sub(x, F(zoomed.view.cropped.x)), F(zoomed.width)), F(zoomed.view.cropped.width))

MappedY(y) ==
    Div(Mul(Sub(y, F(zoomed.view.cropped.y)), F(zoomed.height)), F(zoomed.view.cropped.height))

\* C15: for a zoom above 1 and a focus in the interior of the canvas, the
\* crop and the resize map the focus to within 1 pixel of itself on both
\* axes, and the crop window lies inside the image.
C15_FixedPointZoom ==
    Zoomed =>
        /\ Le(AbsDiff(MappedX(zoomed.cursor_x), zoomed.cursor_x), F(1))
        /\ Le(AbsDiff(MappedY(zoomed.cursor_y), zoomed.cursor_y), F(1))
        /\ Le(F(0), zoomed.view.view_left)
        /\ Le(zoomed.view.view_left, Sub(F(zoomed.width), Div(F(zoomed.width), zoomed.zoom)))
        /\ Le(F(0), zoomed.view.view_top)
        /\ Le(zoomed.view.view_top, Sub(F(zoomed.height), Div(F(zoomed.height), zoomed.zoom)))

LaidOut == layout # NoLayout

\* C16: the scale is min(1, 1720 / w, 880 / h); the scaled size is at most
\* 1720 x 880; the offsets are the halves, in whole pixels, of what the
\* scaled size leaves of 1920 x 1080; the margin is at least 100 pixels on
\* every side.
C16_ContentLayout ==
    LaidOut =>
        LET w == metadata.width
            h == metadata.height
        IN  /\ \/ layout.scale = F(1) /\ w <= 1720 /\ h <= 880
               \/ /\ Lt(layout.scale, F(1))
                  /\ \/ layout.scale = Rat(1720, w) /\ Le(Rat(1720, w), Rat(880, h))
                     \/ layout.scale = Rat(880, h) /\ Le(Rat(880, h), Rat(1720, w))
            /\ layout.scaled_width <= 1720
            /\ layout.scaled_height <= 880
            /\ 1920 - layout.scaled_width - 2 * layout.offset_x \in {0, 1}
            /\ 1080 - layout.scaled_height - 2 * layout.offset_y \in {0, 1}
            /\ layout.offset_x >= 100
            /\ 1920 - layout.offset_x - layout.scaled_width >= 100
            /\ layout.offset_y >= 100
            /\ 1080 - layout.offset_y - layout.scaled_height >= 100

\* C16 witness: a recording larger than the canvas, scaled down to the full
\* height left for the content, with an odd number of pixels left in width
C16_Witness ==
    /\ LaidOut
    /\ metadata.width > 1920
    /\ Lt(layout.scale, F(1))
    /\ layout.scaled_height = 880
    /\ (1920 - layout.scaled_width) % 2 = 1

----------------------------------------------------------------------------
(* Claims about the driver *)

Frames == 1..counts.output

EncoderRan == pc = "done" /\ outcome.step = "encode"

SomeTaskFailed == \E k \in DOMAIN task : task[k] = "err"

TaskStep == pc = "tasks" /\ task' # task

\* The source frame nearest to output frame k, counted from 1: the frame
\* shown (k - 1) / 60 s into a video of counts.source frames in d / 120 s
NearestSource(k) ==
    LET d == trimmed_duration[1] * (120 \div trimmed_duration[2])
        idx == ((k - 1) * counts.source * 2) \div d
    IN  (IF idx > counts.source - 1 THEN counts.source - 1 ELSE idx) + 1

Saved(k) == task[k] \in {"saved", "ok"}

\* The directory a single-threaded run in ascending k leaves when the same
\* tasks have saved their frame
SequentialDir ==
    IF driver = "pipeline"
    THEN [name \in {FileName("frame", i) : i \in 1..counts.source}
                     \cup {FileName("out", k) : k \in {j \in Frames : Saved(j)}}
            |-> IF name.prefix = "frame" THEN SourceFrame(name.num)
                ELSE Composited(name.num, SourceFrame(NearestSource(name.num)))]
    ELSE [name \in {FileName("frame", i) : i \in 1..counts.source}
            |-> IF Saved(name.num) THEN Composited(name.num, SourceFrame(name.num))
                ELSE SourceFrame(name.num)]

\* C18 as claimed: a task writes only the output slot of its frame and no
\* state shared with the other tasks, and the frames are those of a
\* single-threaded run.
C18_ParallelInvariance_Claimed ==
    [][TaskStep =>
        /\ processed' = processed
        /\ pb' = pb
        /\ source_frames' = source_frames
        /\ frames_dir' = SequentialDir']_vars

\* C18 amended: besides the file of its own frame a task writes only the
\* counter of processed frames and the progress bar, which all tasks share
\* and no frame depends on; the event log, the pre-loaded source frames and
\* the frame counts are not written, and after every step the files are
\* those of a single-threaded run in ascending k.
C18_ParallelInvariance ==
    [][TaskStep =>
        /\ \E k \in Frames :
             /\ \A j \in Frames \ {k} : task'[j] = task[j]
             /\ \A name \in DOMAIN frames_dir' :
                    name # output_path(driver, k) =>
                        name \in DOMAIN frames_dir /\ frames_dir'[name] = frames_dir[name]
        /\ processed' \in {processed, processed + 1}
        /\ source_frames' = source_frames
        /\ counts' = counts
        /\ cursor_events' = cursor_events
        /\ frames_dir' = SequentialDir']_vars

\* C18 witness: the task of the last frame has finished while the task of
\* the first frame is still running
C18_Witness ==
    /\ pc = "tasks"
    /\ counts.output >= 2
    /\ task[counts.output] = "ok"
    /\ task[1] = "running"
    /\ processed = 1
    /\ output_path(driver, counts.output) \in DOMAIN frames_dir

\* C19: when a per-frame task has failed, the tasks not yet started are
\* cancelled, and the driver returns the first error.
C19_CancelOnError ==
    [][/\ (pc = "tasks" /\ SomeTaskFailed) =>
              \A j \in DOMAIN task : task[j] = "pending" => task'[j] = "pending"
       /\ (pc = "tasks" /\ pc' = "done" /\ SomeTaskFailed) =>
              /\ outcome'.result = "Err"
              /\ outcome'.frame \in {k \in Frames : task[k] = "err"}]_vars

\* C20: when a per-frame task returns an error, or an earlier step fails,
\* the encoder is never run and process_video returns an error; the video
\* is produced only after all F_out frames were composited and saved.
C20_NoPartialOutput ==
    pc = "done" =>
        /\ (SomeTaskFailed \/ outcome.step \in {"extract", "load", "frame"}) =>
               encoded = <<>> /\ outcome.result = "Err"
        /\ outcome.result = "Ok" =>
               \A k \in Frames :
                   /\ task[k] = "ok"
                   /\ output_path(driver, k) \in DOMAIN frames_dir
                   /\ frames_dir[output_path(driver, k)].kind = "composited"

----------------------------------------------------------------------------
(* Claims about the set-up of process_video *)

IsHexColour(str) ==
    \/ Len(str) = 6 /\ \A i \in 1..6 : str[i] \in HexDigits
    \/ Len(str) = 7 /\ str[1] = "#" /\ \A i \in 2..7 : str[i] \in HexDigits

ValidBackground(b) == ~b.some \/ IsHexColour(b.v) \/ b.v \in ReadableImages

NonNegative(o) == IF o.some /\ Lt(F(0), o.v) THEN o.v ELSE F(0)

\* D = max(0, D_0 - max(0, trim_start) - max(0, trim_end))
TrimmedSeconds ==
    LET rest == Sub(Sub(original_duration, NonNegative(args.trim_start)),
                    NonNegative(args.trim_end))
    IN  IF Lt(rest, F(0)) THEN F(0) ELSE rest

DurationKnown == pc \in {"extract", "load", "tasks"} \/ outcome.step \in {"trim", "extract"}

NothingWritten == frames_dir = <<>> /\ task = <<>> /\ source_frames = <<>> /\ encoded = <<>>

\* C21: when the event log cannot be loaded, the background is neither a
\* hex colour nor a readable image, or the trimmed duration D is <= 0,
\* process_video returns an error before frames are extracted, composited
\* or encoded.
C21_ErrorsBeforeOutput ==
    /\ outcome.step \in {"metadata", "background", "duration", "trim"} =>
           pc = "done" /\ outcome.result = "Err" /\ NothingWritten
    /\ ~ValidBackground(args.background) =>
           /\ pc \in {"metadata", "background", "done"}
           /\ pc = "done" => outcome.step \in {"metadata", "background"}
    /\ (DurationKnown /\ Le(TrimmedSeconds, F(0))) =>
           pc = "done" /\ outcome = Outcome("Err", "trim", 0)
    /\ pc \in {"background", "duration", "extract"} => NothingWritten
    /\ pc \in {"extract", "load", "tasks"} => trimmed_duration = TrimmedSeconds

\* C21 witness: a negative trim_start counts as 0, the trim_end takes all
\* of the video, and the run has ended with the error of the trim
C21_Witness ==
    /\ pc = "done"
    /\ outcome = Outcome("Err", "trim", 0)
    /\ args.trim_start.some /\ Lt(args.trim_start.v, F(0))
    /\ args.trim_end.some /\ Lt(F(0), args.trim_end.v)
    /\ Lt(F(0), original_duration)
    /\ bg.kind = "Image"
    /\ NothingWritten

\* F_out: the least whole number of frames that is at least D * 60
OutputFrames(d) == CHOOSE m \in 0..(MaxFrames + 1) : m * d[2] >= 60 * d[1] /\ (m - 1) * d[2] < 60 * d[1]

\* C23: a run that reaches frame processing has the F_out = ceil(D * 60)
\* tasks 1 .. F_out, and the source index of every k is
\* min(floor(((k - 1) / 60) * F_n / D), F_n - 1), lies in 0 .. F_n - 1 and
\* does not decrease with k, also when no frame was extracted.
C23_SourceIndex ==
    (driver = "pipeline" /\ pc \in {"tasks", "encode"}) =>
        /\ DOMAIN task = 1..OutputFrames(trimmed_duration)
        /\ \A k \in DOMAIN task :
              /\ task[k] # "panic"
              /\ source_idx(k, counts) \in 0..(counts.source - 1)
              /\ source_idx(k, counts) + 1 = NearestSource(k)
              /\ k > 1 => source_idx(k - 1, counts) <= source_idx(k, counts)

\* C22: after the cancel signal, tasks in flight may complete, no further
\* task is started, and no output is committed: the encoder does not
\* finish a video.
C22_CancelSignal ==
    [][cancel =>
        /\ \A k \in DOMAIN task : task[k] = "pending" => task'[k] = "pending"
        /\ pc' # "encode"
        /\ encoded' = encoded
        /\ outcome'.result # "Ok"]_vars

----------------------------------------------------------------------------
(* Claims about the task of one frame *)

Rendered == final_img # NoImage

Ops == [i \in 1..Len(final_img.steps) |-> final_img.steps[i].op]

TimedOps == {"cursor", "ripples", "zoom", "motion_blur"}

\* base: cursor_to_video_offset when > 0, else cursor_tracking_duration - D_0
\* when cursor_tracking_duration > 0, else 0
BaseOffset ==
    CASE Lt(F(0), metadata.cursor_to_video_offset) -> metadata.cursor_to_video_offset
      [] ~Lt(F(0), metadata.cursor_to_video_offset) /\ Lt(F(0), metadata.cursor_tracking_duration)
            -> Sub(metadata.cursor_tracking_duration, original_duration)
      [] OTHER -> F(0)

\* C24: the offset added to every output timestamp is base + max(0,
\* trim_start), the recorded offset taking precedence over the difference
\* of the durations, and the trajectory, the cursor, the ripples and the
\* motion estimator of a frame all get the same adjusted timestamp.
C24_TimeOffset ==
    /\ phase = "frames" =>
           time_offset = Add(BaseOffset, NonNegative(args.trim_start))
    /\ Rendered =>
           /\ final_img.timestamp = Add(Rat(final_img.frame - 1, 60), time_offset)
           /\ \A i \in 1..Len(final_img.steps) :
                  final_img.steps[i].op \in TimedOps =>
                      final_img.steps[i].at = final_img.timestamp
           /\ Rat(timestamp, 120) = final_img.timestamp

\* C24 witness: both timing fields are set, the start is trimmed, and the
\* second frame drew the cursor and the motion blur
C24_Witness ==
    /\ Rendered
    /\ final_img.frame = 2
    /\ Lt(F(0), metadata.cursor_to_video_offset)
    /\ Lt(F(0), metadata.cursor_tracking_duration)
    /\ args.trim_start.some /\ Lt(F(0), args.trim_start.v)
    /\ time_offset = Rat(5, 120)
    /\ \E i \in 1..Len(final_img.steps) : final_img.steps[i].op = "cursor"
    /\ \E i \in 1..Len(final_img.steps) : final_img.steps[i].op = "motion_blur"

RenderOrder == <<"background", "shadow", "content", "cursor", "ripples", "zoom", "motion_blur">>

\* Whether a step is due in the frame that was rendered
Due(op) ==
    CASE op = "cursor" -> ~flags.no_cursor /\ Lt(<<1, 100>>, cursor.opacity)
      [] op = "ripples" -> ~flags.no_click_highlight
      [] op = "zoom" -> Lt(<<101, 100>>, trajectory.zoom)
      [] op = "motion_blur" -> ~flags.no_motion_blur
      [] OTHER -> TRUE

NotCursor(step) == step.op # "cursor"

\* C25: the steps of a frame are background, shadow, content, cursor,
\* ripples, zoom, motion blur in this order; the cursor is drawn iff it is
\* enabled and its opacity is > 0.01, the ripples iff click highlighting is
\* enabled, the zoom iff the trajectory zoom is > 1.01, the motion blur iff
\* it is enabled; disabling the cursor changes no other step.
C25_RenderOrder ==
    Rendered =>
        /\ Ops = SelectSeq(RenderOrder, Due)
        /\ SelectSeq(final_img.steps, NotCursor)
             = render_frame(final_img.frame, cursor_events, config, time_offset,
                            [flags EXCEPT !.no_cursor = TRUE]).steps

\* C25 witness: a frame with all seven steps, drawn while the zoom eases in
C25_Witness ==
    /\ Rendered
    /\ Ops = RenderOrder
    /\ Lt(trajectory.zoom, config.max_zoom)

ZoomAt(t) == calculate_zoom(t, cursor_events, config).zoom

\* C26: at every output timestamp t, t < dt and t < 0 included, the
\* velocities are the central differences over t - dt and t + dt:
\* zoom_velocity = (zoom(t + dt) - zoom(t - dt)) / (2 dt), and the pan
\* velocities the same difference of the focus in canvas space.
C26_CentralDifference ==
    (Rendered /\ motion # NoMotion) =>
        LET before == calculate_zoom(timestamp - 1, cursor_events, config)
            after == calculate_zoom(timestamp + 1, cursor_events, config)
            sf == IF Lt(metadata.scale_factor, F(1)) THEN F(1) ELSE metadata.scale_factor
        IN  /\ motion.zoom = ZoomAt(timestamp)
            /\ motion.zoom_velocity = Mul(Sub(after.zoom, before.zoom), F(60))
            /\ motion.pan_velocity_x
                 = Mul(Mul(Mul(Sub(after.x, before.x), sf), layout.scale), F(60))
            /\ motion.pan_velocity_y
                 = Mul(Mul(Mul(Sub(after.y, before.y), sf), layout.scale), F(60))

----------------------------------------------------------------------------
(* Claims about the pan between two clicks *)

\* Effective clicks i and i + 1 are close enough to pan, differ in x, and
\* t lies between them
PanBetween(i, t) ==
    /\ i \in 1..(Len(effective) - 1)
    /\ effective[i + 1].timestamp - effective[i].timestamp <= pan_window(config)
    /\ effective[i].x # effective[i + 1].x
    /\ effective[i].timestamp <= t
    /\ t <= effective[i + 1].timestamp

\* The fraction of the way from click i to click i + 1 of a focus
PanFraction(i, sample) ==
    Div(Sub(sample.x, F(effective[i].x)), F(effective[i + 1].x - effective[i].x))

----------------------------------------------------------------------------
(* linux/event_tap.rs: CursorTracker.  The tracker's events are           *)
(* cursor_events; one tick is one poll interval, and the time since       *)
(* start_time is counted in rounds of the polling loop.                   *)

\* Receiver::try_recv: the first message if there is one
try_recv(queue) ==
    IF queue = <<>> THEN [some |-> FALSE, queue |-> queue]
    ELSE [some |-> TRUE, v |-> Head(queue), queue |-> Tail(queue)]

\* What XQueryPointer can answer
Pointers ==
    { Pointer(0, 0, FALSE, FALSE), Pointer(1, 0, TRUE, FALSE), Pointer(10, 0, FALSE, TRUE),
      Pointer(10, 0, TRUE, TRUE) }

abs(n) == IF n < 0 THEN -n ELSE n

\* The events one round of the polling loop pushes
polled(last, reply, now) ==
    (IF reply.left /\ ~last.left
     THEN <<CursorEvent(reply.x, reply.y, now, "LeftClick")>> ELSE <<>>)
    \o (IF reply.right /\ ~last.right
        THEN <<CursorEvent(reply.x, reply.y, now, "RightClick")>> ELSE <<>>)
    \o (IF /\ reply.x # last.x \/ reply.y # last.y
           /\ abs(reply.x - last.x) + abs(reply.y - last.y) > 2
        THEN <<CursorEvent(reply.x, reply.y, now, "Move")>> ELSE <<>>)

\* A tracker made by CursorTracker::new()
InitTracker ==
    /\ cursor_events = <<>>
    /\ config \in {c \in Configs : c.debounce = 1}
    /\ phase = "record"
    /\ timestamp = 0
    /\ effective = <<>>
    /\ trajectory = NoSample
    /\ ripples = <<>>
    /\ cursor = NoCursor
    /\ EffectsIdle
    /\ DriverIdle
    /\ RenderIdle
    /\ TrackerIdle
    /\ RecorderIdle

Still == UNCHANGED <<config, phase, timestamp, effective, trajectory, ripples, cursor,
                     effectVars, driverVars, renderVars, recorderVars, platform>>

\* CursorTracker::start
Start ==
    /\ caller.pc = "new"
    /\ tracker' = CursorTracker("Some", "Some", 0)
    /\ stop_rx' = Receiver(<<>>, TRUE)
    /\ thread' = [thread EXCEPT !.pc = "record_setup"]
    /\ caller' = [caller EXCEPT !.pc = "started"]
    /\ UNCHANGED cursor_events
    /\ Still

\* run_record_tracking up to the spawn of the record thread; an error makes
\* the thread fall back to polling
RecordSetup(ok) ==
    /\ thread.pc = "record_setup"
    /\ thread' = IF ok
                 THEN [thread EXCEPT !.pc = "record_wait", !.running = TRUE,
                                     !.record_thread = "spawned"]
                 ELSE [thread EXCEPT !.pc = "polling_connect"]
    /\ UNCHANGED <<cursor_events, tracker, stop_rx, caller>>
    /\ Still

\* The record thread: it pushes no event, and leaves when running is false
RecordThreadExit ==
    /\ thread.record_thread = "spawned"
    /\ ~thread.running
    /\ thread' = [thread EXCEPT !.record_thread = "exited"]
    /\ UNCHANGED <<cursor_events, tracker, stop_rx, caller>>
    /\ Still

\* run_record_tracking: the wait for the stop signal ends when try_recv
\* takes a message
RecordWait ==
    /\ thread.pc = "record_wait"
    /\ try_recv(stop_rx.queue).some
    /\ stop_rx' = [stop_rx EXCEPT !.queue = try_recv(stop_rx.queue).queue]
    /\ thread' = [thread EXCEPT !.pc = "record_stop", !.running = FALSE]
    /\ UNCHANGED <<cursor_events, tracker, caller>>
    /\ Still

\* run_record_tracking after the join of the record thread: without events
\* it is an error, and the thread falls back to polling
RecordStop ==
    /\ thread.pc = "record_stop"
    /\ thread.record_thread = "exited"
    /\ thread' = [thread EXCEPT !.pc = IF Len(cursor_events) = 0
                                       THEN "polling_connect" ELSE "exited"]
    /\ UNCHANGED <<cursor_events, tracker, stop_rx, caller>>
    /\ Still

\* run_polling_tracking: the connection to the display
PollingConnect(ok) ==
    /\ thread.pc = "polling_connect"
    /\ thread' = [thread EXCEPT !.pc = IF ok THEN "polling" ELSE "exited"]
    /\ UNCHANGED <<cursor_events, tracker, stop_rx, caller>>
    /\ Still

\* The polling loop: the stop signal is there, break
PollStop ==
    /\ thread.pc = "polling"
    /\ try_recv(stop_rx.queue).some
    /\ stop_rx' = [stop_rx EXCEPT !.queue = try_recv(stop_rx.queue).queue]
    /\ thread' = [thread EXCEPT !.pc = "exited"]
    /\ UNCHANGED <<cursor_events, tracker, caller>>
    /\ Still

\* The polling loop: no stop signal, one query of the pointer and the sleep
\* of one poll interval
Poll(reply) ==
    LET new == polled(thread.last, reply, tracker.elapsed)
    IN  /\ thread.pc = "polling"
        /\ ~try_recv(stop_rx.queue).some
        /\ Len(cursor_events) + Len(new) <= MaxEvents
        /\ cursor_events' = cursor_events \o new
        /\ thread' = [thread EXCEPT !.last = reply]
        /\ tracker' = [tracker EXCEPT !.elapsed = IF @ < MaxTime THEN @ + 1 ELSE @]
        /\ UNCHANGED <<stop_rx, caller>>
        /\ Still

\* CursorTracker::stop: the duration is taken, the signal is sent and the
\* Sender dropped
StopSend ==
    /\ caller.pc = "started"
    /\ tracker' = [tracker EXCEPT !.stop_tx = "None"]
    /\ stop_rx' = IF tracker.stop_tx = "Some"
                  THEN Receiver(IF thread.pc = "exited" THEN stop_rx.queue
                                ELSE Append(stop_rx.queue, "stop"), FALSE)
                  ELSE stop_rx
    /\ caller' = [caller EXCEPT !.pc = "join", !.duration = tracker.elapsed]
    /\ UNCHANGED <<cursor_events, thread>>
    /\ Still

\* CursorTracker::stop: the join returns, the events are cloned
StopJoin ==
    /\ caller.pc = "join"
    /\ tracker.thread_handle = "Some" => thread.pc = "exited"
    /\ tracker' = [tracker EXCEPT !.thread_handle = "None"]
    /\ caller' = [caller EXCEPT !.pc = "returned", !.events = cursor_events]
    /\ UNCHANGED <<cursor_events, stop_rx, thread>>
    /\ Still

TrackingThread ==
    \/ \E ok \in BOOLEAN : RecordSetup(ok)
    \/ RecordThreadExit
    \/ RecordWait
    \/ RecordStop
    \/ \E ok \in BOOLEAN : PollingConnect(ok)
    \/ PollStop
    \/ \E reply \in Pointers : Poll(reply)

NextTracker ==
    \/ Start
    \/ TrackingThread
    \/ StopSend
    \/ StopJoin

\* The threads are scheduled: a step of the tracking thread that stays
\* possible is taken, and so is the return of the join
SpecTracker ==
    /\ InitTracker
    /\ [][NextTracker]_vars
    /\ WF_vars(\E ok \in BOOLEAN : RecordSetup(ok))
    /\ WF_vars(RecordThreadExit)
    /\ WF_vars(RecordWait)
    /\ WF_vars(RecordStop)
    /\ WF_vars(\E ok \in BOOLEAN : PollingConnect(ok))
    /\ WF_vars(PollStop)
    /\ WF_vars(\E reply \in Pointers : Poll(reply))
    /\ WF_vars(StopJoin)

----------------------------------------------------------------------------
(* Claims about the cursor tracker *)

\* C28: on Linux a call of CursorTracker::stop after start always
\* terminates: once stop waits for the tracking thread, the thread exits,
\* the join returns and stop returns the events and the duration.
C28_StopTerminates == (caller.pc = "join") ~> (caller.pc = "returned")

----------------------------------------------------------------------------
(* linux/capture.rs, macos/capture.rs, recording/recorder.rs and          *)
(* recording/encoder.rs: one recording.  A frame is known by its number   *)
(* in capture order.                                                      *)

MaxCaptured == 5      \* most frames the capture produces in one recording

\* mpsc::sync_channel(3)
CHANNEL_CAPACITY == 3

\* SyncSender::try_send into a channel that takes any number of frames
try_send_Unbounded(ch, frame, connected) ==
    IF connected
    THEN [ok |-> TRUE, channel |-> Append(ch, frame)]
    ELSE [ok |-> FALSE, channel |-> ch]

\* SyncSender::try_send: Err when the channel is full or the Receiver gone
try_send(ch, frame, connected) ==
    IF connected /\ Len(ch) < CHANNEL_CAPACITY
    THEN [ok |-> TRUE, channel |-> Append(ch, frame)]
    ELSE [ok |-> FALSE, channel |-> ch]

\* write_frame writing the frame twice
write_frame_Twice(enc, frame, ok) ==
    IF ok THEN [enc EXCEPT !.written = Append(Append(@, frame), frame)]
    ELSE [enc EXCEPT !.state = "broken"]

\* VideoEncoder::write_frame: the frame goes to stdin, or the write fails
write_frame(enc, frame, ok) ==
    IF ok THEN [enc EXCEPT !.written = Append(@, frame)]
    ELSE [enc EXCEPT !.state = "broken"]

\* A frame the recorder received and the loop that received it
Received(frame, step) == [frame |-> frame, step |-> step]

Platforms == {"linux", "macos"}

\* record_display after the capture and the cursor tracker were started
InitRecorder ==
    /\ cursor_events = <<>>
    /\ config \in {c \in Configs : c.debounce = 1}
    /\ phase = "record"
    /\ timestamp = 0
    /\ effective = <<>>
    /\ trajectory = NoSample
    /\ ripples = <<>>
    /\ cursor = NoCursor
    /\ EffectsIdle
    /\ DriverIdle
    /\ RenderIdle
    /\ platform \in Platforms
    /\ tracker = CursorTracker("Some", "Some", 0)
    /\ stop_rx = Receiver(<<>>, TRUE)
    /\ thread = NoThread
    /\ caller = Caller("started", <<>>, 0)
    /\ session = CaptureSession(TRUE, "running", 0)
    /\ channel = <<>>
    /\ received = <<>>
    /\ encoder = VideoEncoder("none", <<>>)
    /\ running = TRUE
    /\ rec_pc = "first_frame"
    /\ saved = FALSE
    /\ recorded = NotRecorded

Apart == UNCHANGED <<frameVars, effectVars, driverVars, renderVars, platform, tracker,
                     stop_rx, thread>>

\* The Receiver lives as long as record_display has not returned
Connected == recorded = NotRecorded

\* linux: the reader thread reads one frame from FFmpeg and tries to send
\* it; EOF or an error ends the thread
ReadFrame(ok) ==
    /\ platform = "linux"
    /\ session.running
    /\ session.reader = "running"
    /\ session.frame_count < MaxCaptured
    /\ IF ok
       THEN /\ session' = [session EXCEPT !.frame_count = @ + 1]
            /\ channel' = try_send(channel, session.frame_count + 1, Connected).channel
       ELSE /\ session' = [session EXCEPT !.reader = "exited"]
            /\ UNCHANGED channel
    /\ UNCHANGED <<caller, received, encoder, running, rec_pc, saved, recorded>>
    /\ Apart

\* macos: ScreenCaptureKit calls the handler with one frame
did_output_sample_buffer ==
    /\ platform = "macos"
    /\ session.running
    /\ session.frame_count < MaxCaptured
    /\ session' = [session EXCEPT !.frame_count = @ + 1]
    /\ channel' = try_send(channel, session.frame_count + 1, Connected).channel
    /\ UNCHANGED <<caller, received, encoder, running, rec_pc, saved, recorded>>
    /\ Apart

\* The Ctrl+C handler
CtrlC ==
    /\ running
    /\ recorded = NotRecorded
    /\ running' = FALSE
    /\ UNCHANGED <<caller, session, channel, received, encoder, rec_pc, saved, recorded>>
    /\ Apart

\* CaptureSession::stop
stop(ses) == [ses EXCEPT !.running = FALSE, !.reader = "exited"]

\* The loop for the first frame, cancelled: the tracker and the capture
\* are stopped and the run ends with an error
CancelBeforeFirst ==
    /\ rec_pc = "first_frame"
    /\ ~running
    /\ caller' = [caller EXCEPT !.pc = "returned", !.events = cursor_events]
    /\ session' = stop(session)
    /\ rec_pc' = "done"
    /\ recorded' = Recorded("err", "cancelled")
    /\ UNCHANGED <<channel, received, encoder, running, saved>>
    /\ Apart

\* The loop for the first frame: try_recv gives a frame
WaitFirstFrame ==
    /\ rec_pc = "first_frame"
    /\ running
    /\ try_recv(channel).some
    /\ received' = Append(received, Received(try_recv(channel).v, "first"))
    /\ channel' = try_recv(channel).queue
    /\ rec_pc' = "encoder"
    /\ UNCHANGED <<caller, session, encoder, running, saved, recorded>>
    /\ Apart

\* VideoEncoder::new(..)?
StartEncoder(ok) ==
    /\ rec_pc = "encoder"
    /\ IF ok
       THEN /\ encoder' = VideoEncoder("open", <<>>)
            /\ rec_pc' = "write_first"
            /\ UNCHANGED recorded
       ELSE /\ rec_pc' = "done"
            /\ recorded' = Recorded("err", "encoder")
            /\ UNCHANGED encoder
    /\ UNCHANGED <<caller, session, channel, received, running, saved>>
    /\ Apart

\* encoder.write_frame(&first_frame.data)?
WriteFirstFrame(ok) ==
    /\ rec_pc = "write_first"
    /\ encoder' = write_frame(encoder, received[1].frame, ok)
    /\ IF ok
       THEN rec_pc' = "main" /\ UNCHANGED recorded
       ELSE rec_pc' = "done" /\ recorded' = Recorded("err", "write_frame")
    /\ UNCHANGED <<caller, session, channel, received, running, saved>>
    /\ Apart

\* One received frame is written: the body of the main loop and of the drain
ReceiveAndWrite(step, ok) ==
    /\ try_recv(channel).some
    /\ received' = Append(received, Received(try_recv(channel).v, step))
    /\ channel' = try_recv(channel).queue
    /\ encoder' = write_frame(encoder, try_recv(channel).v, ok)
    /\ IF ok
       THEN UNCHANGED <<rec_pc, recorded>>
       ELSE rec_pc' = "done" /\ recorded' = Recorded("err", "write_frame")
    /\ UNCHANGED <<caller, session, running, saved>>
    /\ Apart

\* The main loop while running: a frame is received and written
MainLoop(ok) ==
    /\ rec_pc = "main"
    /\ running
    /\ ReceiveAndWrite("main", ok)

\* The main loop ends and the cursor tracker is stopped
StopTracking ==
    /\ rec_pc = "main"
    /\ ~running
    /\ caller' = [caller EXCEPT !.pc = "returned", !.events = cursor_events]
    /\ rec_pc' = "drain"
    /\ UNCHANGED <<session, channel, received, encoder, running, saved, recorded>>
    /\ Apart

\* The drain: a frame left in the channel is received and written
Drain(ok) ==
    /\ rec_pc = "drain"
    /\ ReceiveAndWrite("drain", ok)

\* The drain finds the channel empty; capture_session.stop()?
StopCapture(ok) ==
    /\ rec_pc = "drain"
    /\ ~try_recv(channel).some
    /\ ok \/ platform = "macos"
    /\ session' = stop(session)
    /\ IF ok
       THEN rec_pc' = "finish" /\ UNCHANGED recorded
       ELSE rec_pc' = "done" /\ recorded' = Recorded("err", "stop_capture")
    /\ UNCHANGED <<caller, channel, received, encoder, running, saved>>
    /\ Apart

\* encoder.finish()?
FinishEncoder(ok) ==
    /\ rec_pc = "finish"
    /\ encoder' = [encoder EXCEPT !.state = IF ok THEN "finished" ELSE "failed"]
    /\ IF ok
       THEN rec_pc' = "save" /\ UNCHANGED recorded
       ELSE rec_pc' = "done" /\ recorded' = Recorded("err", "finish")
    /\ UNCHANGED <<caller, session, channel, received, running, saved>>
    /\ Apart

\* metadata.save(output)? and the return
SaveMetadata(ok) ==
    /\ rec_pc = "save"
    /\ saved' = ok
    /\ rec_pc' = "done"
    /\ recorded' = IF ok THEN Recorded("ok", "none") ELSE Recorded("err", "save")
    /\ UNCHANGED <<caller, session, channel, received, encoder, running>>
    /\ Apart

Producer ==
    \/ \E ok \in BOOLEAN : ReadFrame(ok)
    \/ did_output_sample_buffer

NextRecorder ==
    \/ Producer
    \/ CtrlC
    \/ CancelBeforeFirst
    \/ WaitFirstFrame
    \/ \E ok \in BOOLEAN : StartEncoder(ok)
    \/ \E ok \in BOOLEAN : WriteFirstFrame(ok)
    \/ \E ok \in BOOLEAN : MainLoop(ok)
    \/ StopTracking
    \/ \E ok \in BOOLEAN : Drain(ok)
    \/ \E ok \in BOOLEAN : StopCapture(ok)
    \/ \E ok \in BOOLEAN : FinishEncoder(ok)
    \/ \E ok \in BOOLEAN : SaveMetadata(ok)

SpecRecorder == InitRecorder /\ [][NextRecorder]_vars

----------------------------------------------------------------------------
(* Claims about the recording *)

\* The frames waiting in the channel after those already received
InOrder == [i \in 1..Len(received) |-> received[i].frame] \o channel

\* C29: the frame channel holds at most 3 frames; the producer is never
\* blocked by a full channel: its step is possible and drops the frame,
\* which is never sent again; the frames received and waiting are in
\* capture order without duplicates, a subsequence of the captured frames.
C29_FrameChannel ==
    /\ [](/\ Len(channel) <= 3
          /\ \A i \in 1..Len(InOrder) : InOrder[i] \in 1..session.frame_count
          /\ \A i \in 1..(Len(InOrder) - 1) : InOrder[i] < InOrder[i + 1])
    /\ [][(session.running /\ session.reader = "running" /\ Len(channel) = 3
           /\ session.frame_count < MaxCaptured)
            => ENABLED <<Producer>>_session]_vars
    /\ [][session'.frame_count = session.frame_count + 1
            => \/ Len(channel) < 3 /\ Connected
                  /\ channel' = Append(channel, session'.frame_count)
               \/ (Len(channel) = 3 \/ ~Connected) /\ channel' = channel]_vars

\* C29 witness: the recorder has received a frame after one that was
\* dropped at a full channel
C29_Witness ==
    /\ Len(channel) = 3
    /\ \E i \in 1..(Len(InOrder) - 1) : InOrder[i + 1] > InOrder[i] + 1

\* C30: the metadata file is written only after encoder.finish succeeded;
\* the encoder finishes only after the cursor tracker was stopped and every
\* received frame was written once, in receive order; a recording cancelled
\* before the first frame, a failed write and a failed finish end with an
\* error and without a metadata file.
C30_MetadataLast ==
    /\ saved => encoder.state = "finished"
    /\ encoder.state = "finished" =>
           /\ caller.pc = "returned"
           /\ encoder.written = [i \in 1..Len(received) |-> received[i].frame]
    /\ (rec_pc = "done" /\ received = <<>>) => (recorded.status = "err" /\ ~saved)
    /\ (rec_pc = "done" /\ encoder.state \in {"broken", "failed"})
           => (recorded.status = "err" /\ ~saved)
    /\ recorded.status = "ok" => saved

\* C30 witness: a recording with a first frame, a frame of the main loop
\* and a drained frame was saved
C30_Witness ==
    /\ saved
    /\ recorded.status = "ok"
    /\ \E i \in 1..Len(received) : received[i].step = "main"
    /\ \E i \in 1..Len(received) : received[i].step = "drain"
    /\ \E i \in 1..(Len(received) - 1) : received[i + 1].frame > received[i].frame + 1

====
